---- MODULE Spec2Model ----
(***************************************************************************)
(* Verification model of the EcoFlow Prometheus exporter's ingestion core: *)
(* the push backend (api/mqtt.py), the request/reply backend               *)
(* (api/device.py) and the Worker loop (worker.py).                        *)
(*                                                                         *)
(* Exactly one backend exists per process, so both backends are modelled   *)
(* over the same state variables: MqttApiClient keeps the connection       *)
(* fields on its MqttConnection object, DeviceApiClient keeps them on      *)
(* itself.  Each backend has its own actions.                              *)
(***************************************************************************)
EXTENDS Integers, Sequences, FiniteSets, TLC

\* ---------------------------------------------------------------- constants
MQTT_TIMEOUT == 60
IDLE_CHECK_INTERVAL == 30
MAX_RECONNECT_DELAY == 300
QUOTA_REQUEST_INTERVAL == 30
COLLECTING_INTERVAL == 10
RETRY_TIMEOUT == 30
STARTUP_RETRY_TIMEOUT == 60   \* RETRY_TIMEOUT of ecoflow_prometheus.py
ESTABLISH_ATTEMPTS == 3
DEVICE_LIST_CACHE_TTL == 60

\* ------------------------------------------------------------------- bounds
TimeStep == 30        \* granularity of the clock
MaxTime == 210        \* the clock stops here when supervision is exercised
CacheMaxTime == 120   \* the clock stops here when the device status is exercised
MaxClients == 3       \* broker clients (mqtt.Client objects) ever created
BackoffClients == 5   \* the same where the reconnect delay is followed to its cap
BackoffMaxTime == 420 \* the clock stops here in that specification
MaxConnects == 2      \* calls of connect() made by the bootstrap
MaxThreads == 2       \* reconnect threads that may exist at once
MaxPublished == 2     \* quota requests that are counted
MaxIter == 3          \* Worker iterations that are counted
MaxScalars == 2       \* scalars in a quota map the worker exports
MaxKeyLen == 3        \* tokens in a quota key that names a metric
MaxMetrics == 2       \* EcoflowMetric objects that are created
MaxErrors == 2        \* message errors that are counted
MaxHeaders == 2       \* headers in a protobuf container
MaxBytes == 2         \* bytes in a string given to _xor_decode
MaxItems == 2         \* elements of a list or dict in a quota map
MaxCalls == 5         \* get_device_list calls of the startup loop that are modelled
BootMaxTime == 210    \* horizon of the startup loop
MaxLookups == 3       \* get_device calls on the REST backend
MaxFetches == 4       \* device-list requests of the REST backend
RestMaxTime == 180    \* horizon of the REST backend
MaxAnaThreads == 2    \* threads that use the analytics singleton
MaxAnaCalls == 3      \* calls each of them makes

None == 0 - 1         \* Python None for an optional timestamp
NoSample == 0 - 2     \* a labelled metric child that was never created

Keys == {"soc", "wattsIn"}
Vals == {75, 85}
Empty == [k \in {} |-> 0]
Params == UNION {[S -> Vals] : S \in SUBSET Keys}

\* the nested maps json.loads creates: a quota value is a number or one of these
Refs == {1, 2}

ClientIds == 1..BackoffClients
ThreadIds == 1..MaxThreads

VARIABLES
    backend,             \* the client the factory built: "mqtt" or "device"
    horizon,             \* where the clock stops advancing
    attempts,            \* how often the bootstrap calls connect() at most
    maxclients,          \* how many broker clients are created at most
    errors_cap,          \* how many message errors are counted at most
    now,                 \* time.time()
    quota_cache,         \* _quota_cache
    cache_lock,          \* _cache_lock: 0 free, else the client whose loop thread holds it
    last_update,         \* _last_update
    last_push_data_time, \* DeviceApiClient._last_push_data_time
    observed,            \* history: per key, the value of the last applied message with it
    last_push_arrival,   \* history: when the device backend last applied a push message
    heap,                \* the nested maps that quota values refer to: object -> content
    snapshot,            \* the map get_device_quota returned last
    info_online,         \* DeviceInfo.online returned last: "online", "offline"
    mqtt,                \* MqttApiClient._mqtt is not None
    client,              \* the current mqtt.Client (0 = None)
    nclients,            \* mqtt.Client objects created so far
    nconnects,           \* calls of connect() so far
    orphans,             \* clients of MqttConnection objects that a later connect() replaced
    loops,               \* per client: state of its network loop and broker session
    connected,           \* the _connected event
    subscribed,          \* the _subscribed event
    last_message_time,   \* last_message_time
    gauge,               \* analytics.mqtt_connected child of this backend's client type
    reconnect_delay,     \* _reconnect_delay
    idle_timer,          \* RepeatTimer of _check_idle: "none", "running", "cancelled"
    quota_timer,         \* RepeatTimer of _request_quota: "none", "running", "cancelled"
    idle_pc,             \* position of the idle timer thread
    threads,             \* reconnect threads started by MqttApiClient._reconnect
    joined,              \* the thread the idle tick is joining (0 = none)
    last_attempt,        \* what _reconnect logged last: "success", "failed", "timeout"
    published,           \* quota requests published
    cb_pc,               \* per client: position of its loop thread inside a message callback
    cb_msg,              \* per client: what the running handler keeps of its message
    cb_todo,             \* per client: keys that dict.update has still to write
    msg_errors,          \* errors the message handlers recorded (mqtt_message_errors_total, log.error)
    main_pc,             \* position of the thread calling connect() and disconnect()
    w_pc,                \* position of Worker.run
    w_status,            \* scrape statuses accounted by the current iteration
    w_sleep,             \* duration of the sleep the Worker is in
    w_online,            \* the Worker's online gauge
    w_collected,         \* the metrics-collected gauge
    w_iter,              \* iterations completed
    w_scrapes,           \* scrape_requests_total per status
    w_metrics,           \* state of the registered device metrics
    w_fetched,           \* did the current iteration call get_device_quota
    w_connection_errors, \* Worker.connection_errors: None, Worker.__init__ creates no such metric
    \* metric pool (metrics/prometheus.py)
    m_pool,              \* EcoflowMetric.METRICS_POOL: name -> shape name and index label names
    m_registry,          \* shape names registered with the Prometheus registry
    m_last,              \* what the last EcoflowMetric(...) call did
    m_count,             \* EcoflowMetric(...) calls made
    \* stateless helpers, the bootstrap and the polling backend
    call,                \* the helper call under way: function and arguments
    ret,                 \* what the call returned or raised
    boot,                \* the bootstrap (ecoflow_prometheus.py): position and locals
    rest,                \* RestApiClient: device-list cache and its counters
    failures,            \* reconnect attempts that failed since the delay was last reset
    ana                  \* the analytics singleton, its locks and the threads that use it

envVars == <<backend, horizon, attempts, maxclients, errors_cap>>
cacheVars == <<quota_cache, cache_lock, last_update, last_push_data_time, observed,
              last_push_arrival, heap>>
readVars == <<snapshot, info_online>>
objVars == <<mqtt, client, nclients, nconnects, orphans>>
eventVars == <<connected, subscribed>>
timerVars == <<idle_timer, quota_timer>>
threadVars == <<threads, joined, last_attempt>>
cbVars == <<cb_pc, cb_msg, cb_todo>>
workerVars == <<w_pc, w_status, w_sleep, w_online, w_collected, w_iter,
                w_scrapes, w_metrics, w_fetched,
                w_connection_errors>>
metricVars == <<m_pool, m_registry, m_last, m_count>>
auxVars == <<call, ret, boot, rest>>
vars == <<envVars, now, cacheVars, readVars, objVars, loops, eventVars, last_message_time,
          gauge, reconnect_delay, timerVars, idle_pc, threadVars, published, cbVars,
          msg_errors, main_pc, workerVars, metricVars, auxVars, failures, ana>>

\* ------------------------------------------------------------------ helpers
\* Python truthiness of an optional timestamp: None and 0 are falsy
Truthy(t) == t # None /\ t # 0

\* min() that returns its first argument
MinFirst(a, b) == a

\* min(a, b)
Min(a, b) == IF a < b THEN a ELSE b

\* d = {k: v}: the cache is replaced instead of updated
DictSetReplaces(d, k, v) == [x \in {k} |-> v]

\* d[k] = v, the step of dict.update
DictSet(d, k, v) == [x \in DOMAIN d \cup {k} |-> IF x = k THEN v ELSE d[x]]

\* a session on which the broker delivers messages
SessionUp(c) == loops[c] \in {"up", "resumed"}

\* Thread.is_alive()
Alive(t) == threads[t] \in {"begin", "call", "hung"}

\* what the reader holds before its first read
Unread == [k \in {"unread"} |-> 0]

\* locals of a message handler: which handler runs, and its params
NoLocals == [kind |-> "none", params |-> Empty]

\* messages the broker can deliver
JsonMsgs == {[kind |-> "json", online |-> 0, params |-> p] : p \in Params}
BinaryMsgs == {[kind |-> "binary", online |-> 0, params |-> p] : p \in Params}
BadMsgs == {[kind |-> "badjson", online |-> 0, params |-> Empty]}
ReplyMsgs == {[kind |-> k, online |-> o, params |-> p] :
                 k \in {"reply", "otherreply"}, o \in {0, 1}, p \in Params}
BadReplyMsgs == {[kind |-> "badreply", online |-> 0, params |-> Empty]}

\* a payload that fails JSON decoding, or binary decoding (the decoder
\* raised or gave nothing)
Malformed(m) ==
    \/ m.kind \in {"badjson", "badreply"}
    \/ m.kind = "binary" /\ m.params = Empty

\* the handler's except clause records the error
RecordError(m) ==
    msg_errors' = IF Malformed(m) /\ msg_errors < errors_cap
                  THEN msg_errors + 1 ELSE msg_errors

\* ------------------------------------------------------------ initial state
Statuses == {"success", "offline", "not_found", "error"}

WorkerInit ==
    /\ w_pc = "collect"
    /\ w_status = <<>>
    /\ w_sleep = 0
    /\ w_online = NoSample
    /\ w_collected = NoSample
    /\ w_iter = 0
    /\ w_scrapes = [s \in Statuses |-> 0]
    /\ w_metrics = "none"
    /\ w_fetched = FALSE
    /\ w_connection_errors = None

\* no EcoflowMetric has been created: METRICS_POOL = {}
MetricInit ==
    /\ m_pool = <<>>
    /\ m_registry = {}
    /\ m_last = [reused |-> FALSE, attempted |-> FALSE, raised |-> FALSE,
                 labels |-> 0, labelnames |-> 0, set |-> "none"]
    /\ m_count = 0

\* no helper call is under way, the bootstrap and the polling backend are
\* not part of the run
AuxInit ==
    /\ call = [fn |-> "none"]
    /\ ret = [done |-> FALSE]
    /\ boot = [pc |-> "off"]
    /\ rest = [pc |-> "off"]
    /\ ana = [pc |-> "off"]

BackendInit ==
    /\ now = TimeStep
    /\ quota_cache = Empty
    /\ cache_lock = 0
    /\ last_update = None
    /\ last_push_data_time = None
    /\ observed = Empty
    /\ last_push_arrival = None
    /\ heap = [r \in Refs |-> 75]
    /\ snapshot = Unread
    /\ info_online = "unread"
    /\ mqtt = FALSE
    /\ client = 0
    /\ nclients = 0
    /\ nconnects = 0
    /\ orphans = {}
    /\ loops = [c \in ClientIds |-> "unborn"]
    /\ connected = FALSE
    /\ subscribed = FALSE
    /\ last_message_time = None
    /\ gauge = NoSample
    /\ reconnect_delay = IDLE_CHECK_INTERVAL
    /\ failures = 0
    /\ idle_timer = "none"
    /\ quota_timer = "none"
    /\ idle_pc = "wait"
    /\ threads = [t \in ThreadIds |-> "none"]
    /\ joined = 0
    /\ last_attempt = "none"
    /\ published = 0
    /\ msg_errors = 0
    /\ cb_pc = [c \in ClientIds |-> "idle"]
    /\ cb_msg = [c \in ClientIds |-> NoLocals]
    /\ cb_todo = [c \in ClientIds |-> {}]
    /\ main_pc = "created"

\* -------------------------------------------------------------------- clock
Tick ==
    /\ now + TimeStep <= horizon
    /\ now' = now + TimeStep
    /\ UNCHANGED <<envVars, cacheVars, readVars, objVars, loops, eventVars,
                    last_message_time, gauge, reconnect_delay, timerVars, idle_pc,
                    threadVars, published, cbVars, msg_errors, main_pc, workerVars,
                    metricVars, auxVars, failures, ana>>

\* ------------------------------------------------- broker client (library)
\* First half of MqttConnection.connect (DeviceApiClient._connect_mqtt has the
\* same code): clear the events, stop the client the object holds (loop_stop
\* joins its loop thread) and create the new mqtt.Client.
ConnBegin(old) ==
    /\ nclients < maxclients
    /\ old # 0 => cb_pc[old] = "idle"
    /\ connected' = FALSE
    /\ subscribed' = FALSE
    /\ nclients' = nclients + 1
    /\ client' = nclients + 1
    /\ loops' = [c \in ClientIds |->
                    IF c = nclients + 1 THEN "new"
                    ELSE IF c = old THEN "stopped" ELSE loops[c]]

\* Second half: client.connect(...) returned and loop_start() ran
ConnCall ==
    /\ client # 0
    /\ loops' = [loops EXCEPT ![client] = IF @ = "new" THEN "connecting" ELSE @]

\* -------------------------------------------------- cache (both backends)
\* the caller is outside connect() and disconnect() and may read
Reading == main_pc \in {"created", "live", "terminated", "failed"}

\* get_device_quota that copies the cache without taking the lock
GetDeviceQuotaUnlocked ==
    /\ Reading
    /\ snapshot' = quota_cache
    /\ UNCHANGED <<envVars, now, cacheVars, info_online, objVars, loops, eventVars,
                    last_message_time, gauge, reconnect_delay, timerVars, idle_pc,
                    threadVars, published, cbVars, msg_errors, main_pc, workerVars,
                    metricVars, auxVars, failures, ana>>

\* get_device_quota(sn): with self._cache_lock: return dict(self._quota_cache)
GetDeviceQuota ==
    /\ Reading
    /\ cache_lock = 0
    /\ snapshot' = quota_cache
    /\ UNCHANGED <<envVars, now, cacheVars, info_online, objVars, loops, eventVars,
                    last_message_time, gauge, reconnect_delay, timerVars, idle_pc,
                    threadVars, published, cbVars, msg_errors, main_pc, workerVars,
                    metricVars, auxVars, failures, ana>>

\* with self._cache_lock: the loop thread of client c takes the lock
CbAcquire(c) ==
    /\ cb_pc[c] = "lock"
    /\ cache_lock = 0
    /\ cache_lock' = c
    /\ cb_pc' = [cb_pc EXCEPT ![c] = "update"]
    /\ cb_todo' = [cb_todo EXCEPT ![c] = DOMAIN cb_msg[c].params]
    /\ observed' = [k \in DOMAIN observed \cup DOMAIN cb_msg[c].params |->
                        IF k \in DOMAIN cb_msg[c].params
                        THEN cb_msg[c].params[k] ELSE observed[k]]
    /\ UNCHANGED <<envVars, now, quota_cache, last_update, last_push_data_time,
                    last_push_arrival, heap, readVars, objVars, loops, eventVars,
                    last_message_time, gauge, reconnect_delay, timerVars, idle_pc,
                    threadVars, published, cb_msg, msg_errors, main_pc, workerVars,
                    metricVars, auxVars, failures, ana>>

\* self._quota_cache.update(params), one key at a time
CbWrite(c, k) ==
    /\ cb_pc[c] = "update"
    /\ k \in cb_todo[c]
    /\ quota_cache' = DictSet(quota_cache, k, cb_msg[c].params[k])
    /\ cb_todo' = [cb_todo EXCEPT ![c] = @ \ {k}]
    /\ UNCHANGED <<envVars, now, cache_lock, last_update, last_push_data_time, observed,
                    last_push_arrival, heap, readVars, objVars, loops, eventVars,
                    last_message_time, gauge, reconnect_delay, timerVars, idle_pc,
                    threadVars, published, cb_pc, cb_msg, msg_errors, main_pc, workerVars,
                    metricVars, auxVars, failures, ana>>

\* =========================================================================
\* Push backend: MqttApiClient and MqttConnection (api/mqtt.py)
\* =========================================================================

\* _apply_backoff that lengthens the delay by one interval instead of doubling
ApplyBackoffAdds ==
    /\ last_message_time' = IF mqtt THEN now ELSE last_message_time
    /\ reconnect_delay' = Min(reconnect_delay + IDLE_CHECK_INTERVAL, MAX_RECONNECT_DELAY)
    /\ failures' = failures + 1

\* MqttApiClient._apply_backoff
ApplyBackoff ==
    /\ last_message_time' = IF mqtt THEN now ELSE last_message_time
    /\ reconnect_delay' = Min(reconnect_delay * 2, MAX_RECONNECT_DELAY)
    /\ failures' = failures + 1

\* ---------------------------------------------------------- main thread
\* MqttApiClient.connect: MqttAuthentication.authorize raised
ConnectAuthFail ==
    /\ main_pc \in {"created", "failed"}
    /\ nconnects < attempts
    /\ nconnects' = nconnects + 1
    /\ main_pc' = "failed"
    /\ UNCHANGED <<envVars, now, cacheVars, readVars, mqtt, client, nclients, orphans,
                    loops, eventVars, last_message_time, gauge, reconnect_delay, timerVars,
                    idle_pc, threadVars, published, cbVars, msg_errors, workerVars,
                    metricVars, auxVars, failures, ana>>

\* MqttApiClient.connect: a new MqttConnection replaces self._mqtt (the client
\* of the replaced one is left as it is) and its connect() runs up to the
\* broker call
ConnectStart ==
    /\ main_pc \in {"created", "failed"}
    /\ nconnects < attempts
    /\ nconnects' = nconnects + 1
    /\ mqtt' = TRUE
    /\ orphans' = IF client # 0 THEN orphans \cup {client} ELSE orphans
    /\ last_message_time' = None
    /\ ConnBegin(0)
    /\ main_pc' = "m_call"
    /\ UNCHANGED <<envVars, now, cacheVars, readVars, gauge, reconnect_delay, timerVars,
                    idle_pc, threadVars, published, cbVars, msg_errors, workerVars,
                    metricVars, auxVars, failures, ana>>

\* MqttConnection.connect: client.connect() and loop_start() returned
ConnectCallOk ==
    /\ main_pc = "m_call"
    /\ ConnCall
    /\ main_pc' = "m_wait"
    /\ UNCHANGED <<envVars, now, cacheVars, readVars, objVars, eventVars, last_message_time,
                    gauge, reconnect_delay, timerVars, idle_pc, threadVars, published,
                    cbVars, msg_errors, workerVars, metricVars, auxVars, failures, ana>>

\* MqttConnection.connect: client.connect() raised, which leaves
\* MqttApiClient.connect
ConnectCallRaise ==
    /\ main_pc = "m_call"
    /\ main_pc' = "failed"
    /\ UNCHANGED <<envVars, now, cacheVars, readVars, objVars, loops, eventVars,
                    last_message_time, gauge, reconnect_delay, timerVars, idle_pc,
                    threadVars, published, cbVars, msg_errors, workerVars, metricVars,
                    auxVars, failures, ana>>

\* MqttApiClient.connect: wait_connected(10) returned True, wait_subscribed(5)
\* returned either way; the idle timer starts and the delay is reset
ConnectFinish ==
    /\ main_pc = "m_wait"
    /\ connected
    /\ idle_timer' = "running"
    /\ idle_pc' = "wait"
    /\ reconnect_delay' = IDLE_CHECK_INTERVAL
    /\ failures' = 0
    /\ main_pc' = "live"
    /\ UNCHANGED <<envVars, now, cacheVars, readVars, objVars, loops, eventVars,
                    last_message_time, gauge, quota_timer, threadVars, published, cbVars,
                    msg_errors, workerVars, metricVars, auxVars, ana>>

\* connect() that goes on after wait_connected(10) timed out
ConnectTimeoutProceeds ==
    /\ main_pc = "m_wait"
    /\ ~connected
    /\ idle_timer' = "running"
    /\ idle_pc' = "wait"
    /\ reconnect_delay' = IDLE_CHECK_INTERVAL
    /\ failures' = 0
    /\ main_pc' = "live"
    /\ UNCHANGED <<envVars, now, cacheVars, readVars, objVars, loops, eventVars,
                    last_message_time, gauge, quota_timer, threadVars, published, cbVars,
                    msg_errors, workerVars, metricVars, auxVars, ana>>

\* MqttApiClient.connect: wait_connected(10) timed out, EcoflowApiException
ConnectTimeout ==
    /\ main_pc = "m_wait"
    /\ ~connected
    /\ main_pc' = "failed"
    /\ UNCHANGED <<envVars, now, cacheVars, readVars, objVars, loops, eventVars,
                    last_message_time, gauge, reconnect_delay, timerVars, idle_pc,
                    threadVars, published, cbVars, msg_errors, workerVars, metricVars,
                    auxVars, failures, ana>>

\* MqttApiClient.disconnect: the idle timer is cancelled
DisconnectTimer ==
    /\ main_pc = "live"
    /\ idle_timer' = IF idle_timer = "running" THEN "cancelled" ELSE idle_timer
    /\ main_pc' = "d_conn"
    /\ UNCHANGED <<envVars, now, cacheVars, readVars, objVars, loops, eventVars,
                    last_message_time, gauge, reconnect_delay, quota_timer, idle_pc,
                    threadVars, published, cbVars, msg_errors, workerVars, metricVars,
                    auxVars, failures, ana>>

\* MqttApiClient.disconnect: self._mqtt.disconnect(); self._mqtt = None
DisconnectConn ==
    /\ main_pc = "d_conn"
    /\ client # 0 => cb_pc[client] = "idle"
    /\ IF mqtt /\ client # 0
       THEN /\ loops' = [loops EXCEPT ![client] = "stopped"]
            /\ connected' = FALSE
            /\ subscribed' = FALSE
       ELSE UNCHANGED <<loops, connected, subscribed>>
    /\ mqtt' = FALSE
    /\ main_pc' = "d_gauge"
    /\ UNCHANGED <<envVars, now, cacheVars, readVars, client, nclients, nconnects, orphans,
                    last_message_time, gauge, reconnect_delay, timerVars, idle_pc,
                    threadVars, published, cbVars, msg_errors, workerVars, metricVars,
                    auxVars, failures, ana>>

\* MqttApiClient.disconnect: the gauge is set to 0 and the call returns
DisconnectGauge ==
    /\ main_pc = "d_gauge"
    /\ gauge' = 0
    /\ main_pc' = "terminated"
    /\ UNCHANGED <<envVars, now, cacheVars, readVars, objVars, loops, eventVars,
                    last_message_time, reconnect_delay, timerVars, idle_pc, threadVars,
                    published, cbVars, msg_errors, workerVars, metricVars, auxVars,
                    failures, ana>>

\* the online flag with the age compared by <= instead of <
DeviceInfoOnlineInclusive ==
    LET online == IF mqtt THEN connected ELSE FALSE
    IN  IF Truthy(last_update)
        THEN online /\ (now - last_update <= MQTT_TIMEOUT)
        ELSE online

\* MqttApiClient._get_device_info: the online flag
DeviceInfoOnline ==
    LET online == IF mqtt THEN connected ELSE FALSE
    IN  IF Truthy(last_update)
        THEN online /\ (now - last_update < MQTT_TIMEOUT)
        ELSE online

\* MqttApiClient.get_device(sn)
GetDevice ==
    /\ Reading
    /\ info_online' = IF DeviceInfoOnline THEN "online" ELSE "offline"
    /\ UNCHANGED <<envVars, now, cacheVars, snapshot, objVars, loops, eventVars,
                    last_message_time, gauge, reconnect_delay, timerVars, idle_pc,
                    threadVars, published, cbVars, msg_errors, main_pc, workerVars,
                    metricVars, auxVars, failures, ana>>

\* ------------------------------------------------------ reconnect thread
\* do_reconnect: mqtt_conn.connect() up to the broker call
ThreadBegin(t) ==
    /\ threads[t] = "begin"
    /\ ConnBegin(client)
    /\ threads' = [threads EXCEPT ![t] = "call"]
    /\ UNCHANGED <<envVars, now, cacheVars, readVars, mqtt, nconnects, orphans,
                    last_message_time, gauge, reconnect_delay, timerVars, idle_pc, joined,
                    last_attempt, published, cbVars, msg_errors, main_pc, workerVars,
                    metricVars, auxVars, failures, ana>>

\* do_reconnect: client.connect() and loop_start() returned
ThreadCallOk(t) ==
    /\ threads[t] = "call"
    /\ ConnCall
    /\ threads' = [threads EXCEPT ![t] = "done"]
    /\ UNCHANGED <<envVars, now, cacheVars, readVars, objVars, eventVars, last_message_time,
                    gauge, reconnect_delay, timerVars, idle_pc, joined, last_attempt,
                    published, cbVars, msg_errors, main_pc, workerVars, metricVars, auxVars,
                    failures, ana>>

\* do_reconnect: client.connect() raised, the exception is logged
ThreadCallRaise(t) ==
    /\ threads[t] = "call"
    /\ threads' = [threads EXCEPT ![t] = "done"]
    /\ UNCHANGED <<envVars, now, cacheVars, readVars, objVars, loops, eventVars,
                    last_message_time, gauge, reconnect_delay, timerVars, idle_pc, joined,
                    last_attempt, published, cbVars, msg_errors, main_pc, workerVars,
                    metricVars, auxVars, failures, ana>>

\* do_reconnect: the library call does not return
ThreadHang(t) ==
    /\ threads[t] = "call"
    /\ threads' = [threads EXCEPT ![t] = "hung"]
    /\ UNCHANGED <<envVars, now, cacheVars, readVars, objVars, loops, eventVars,
                    last_message_time, gauge, reconnect_delay, timerVars, idle_pc, joined,
                    last_attempt, published, cbVars, msg_errors, main_pc, workerVars,
                    metricVars, auxVars, failures, ana>>

\* ------------------------------------------------------------ idle timer
\* the reconnect condition with the gap compared by >= instead of >
IdleExpiredInclusive ==
    Truthy(last_message_time) /\ now - last_message_time >= MQTT_TIMEOUT

\* _check_idle: the reconnect condition
IdleExpired == Truthy(last_message_time) /\ now - last_message_time > MQTT_TIMEOUT

\* RepeatTimer.run fired MqttApiClient._check_idle, which returned at once
IdleTickQuiet ==
    /\ idle_timer = "running"
    /\ idle_pc = "wait"
    /\ ~mqtt \/ ~IdleExpired
    /\ UNCHANGED vars

\* MqttApiClient._reconnect may start its thread
MayStart(t) == threads[t] \in {"none", "done"}

\* RepeatTimer.run fired MqttApiClient._check_idle, which called _reconnect:
\* the reconnect thread is started and the tick waits in join(timeout=30)
IdleTickReconnect(t) ==
    /\ idle_timer = "running"
    /\ idle_pc = "wait"
    /\ mqtt
    /\ IdleExpired
    /\ MayStart(t)
    /\ threads' = [threads EXCEPT ![t] = "begin"]
    /\ joined' = t
    /\ idle_pc' = "join"
    /\ UNCHANGED <<envVars, now, cacheVars, readVars, objVars, loops, eventVars,
                    last_message_time, gauge, reconnect_delay, timerVars, last_attempt,
                    published, cbVars, msg_errors, main_pc, workerVars, metricVars, auxVars,
                    failures, ana>>

\* MqttApiClient._reconnect: the join returned and the thread has finished
IdleJoinDone ==
    /\ idle_pc = "join"
    /\ threads[joined] = "done"
    /\ IF connected
       THEN /\ last_message_time' = now
            /\ reconnect_delay' = IDLE_CHECK_INTERVAL
            /\ failures' = 0
            /\ last_attempt' = "success"
       ELSE /\ ApplyBackoff
            /\ last_attempt' = "failed"
    /\ idle_pc' = "wait"
    /\ joined' = 0
    /\ UNCHANGED <<envVars, now, cacheVars, readVars, objVars, loops, eventVars, gauge,
                    timerVars, threads, published, cbVars, msg_errors, main_pc, workerVars,
                    metricVars, auxVars, ana>>

\* MqttApiClient._reconnect: the join timed out, the thread is abandoned
IdleJoinTimeout ==
    /\ idle_pc = "join"
    /\ Alive(joined)
    /\ ApplyBackoff
    /\ last_attempt' = "timeout"
    /\ idle_pc' = "wait"
    /\ joined' = 0
    /\ UNCHANGED <<envVars, now, cacheVars, readVars, objVars, loops, eventVars, gauge,
                    timerVars, threads, published, cbVars, msg_errors, main_pc, workerVars,
                    metricVars, auxVars, ana>>

\* RepeatTimer.run: cancel() set finished, the timer thread ends
IdleExit ==
    /\ idle_timer = "cancelled"
    /\ idle_pc = "wait"
    /\ idle_pc' = "exit"
    /\ UNCHANGED <<envVars, now, cacheVars, readVars, objVars, loops, eventVars,
                    last_message_time, gauge, reconnect_delay, timerVars, threadVars,
                    published, cbVars, msg_errors, main_pc, workerVars, metricVars, auxVars,
                    failures, ana>>

\* ------------------------------------------------------ broker callbacks
\* The callbacks of an orphaned client run on the MqttConnection object that
\* was replaced: they reach the gauge and, through message_callback, the cache.

\* MqttConnection._on_connect
OnConnect(c, ok) ==
    /\ loops[c] \in {"connecting", "retrying"}
    /\ cb_pc[c] = "idle"
    /\ IF c \in orphans
       THEN UNCHANGED <<last_message_time, connected>>
       ELSE /\ last_message_time' = now
            /\ connected' = ok
    /\ gauge' = IF ok THEN 1 ELSE 0
    /\ loops' = [loops EXCEPT ![c] = IF ~ok THEN "retrying"
                                     ELSE IF @ = "connecting" THEN "up" ELSE "resumed"]
    /\ UNCHANGED <<envVars, now, cacheVars, readVars, objVars, subscribed, reconnect_delay,
                    timerVars, idle_pc, threadVars, published, cbVars, msg_errors, main_pc,
                    workerVars, metricVars, auxVars, failures, ana>>

\* MqttConnection._on_disconnect; the library then retries the session
OnDisconnect(c) ==
    /\ SessionUp(c)
    /\ cb_pc[c] = "idle"
    /\ IF c \in orphans
       THEN UNCHANGED <<connected, subscribed>>
       ELSE /\ connected' = FALSE
            /\ subscribed' = FALSE
    /\ gauge' = 0
    /\ loops' = [loops EXCEPT ![c] = "retrying"]
    /\ UNCHANGED <<envVars, now, cacheVars, readVars, objVars, last_message_time,
                    reconnect_delay, timerVars, idle_pc, threadVars, published, cbVars,
                    msg_errors, main_pc, workerVars, metricVars, auxVars, failures, ana>>

\* MqttConnection._on_subscribe
OnSubscribe(c) ==
    /\ SessionUp(c)
    /\ cb_pc[c] = "idle"
    /\ c \notin orphans
    /\ ~subscribed
    /\ subscribed' = TRUE
    /\ UNCHANGED <<envVars, now, cacheVars, readVars, objVars, loops, connected,
                    last_message_time, gauge, reconnect_delay, timerVars, idle_pc,
                    threadVars, published, cbVars, msg_errors, main_pc, workerVars,
                    metricVars, auxVars, failures, ana>>

\* Does the handler reach self._quota_cache.update(params)?
\* MqttApiClient._handle_message and _handle_binary_message
Applies(m) ==
    \/ m.kind = "json"
    \/ m.kind = "binary" /\ m.params # Empty

\* _on_message that lets the handler's exception reach the network loop,
\* which ends the loop thread
OnMessageRaises(c, m) ==
    /\ SessionUp(c)
    /\ cb_pc[c] = "idle"
    /\ last_message_time' = IF c \in orphans THEN last_message_time ELSE now
    /\ IF Applies(m)
       THEN /\ cb_pc' = [cb_pc EXCEPT ![c] = "lock"]
            /\ cb_msg' = [cb_msg EXCEPT ![c] = [kind |-> "push", params |-> m.params]]
            /\ UNCHANGED loops
       ELSE /\ loops' = [loops EXCEPT ![c] = IF Malformed(m) THEN "stopped" ELSE @]
            /\ UNCHANGED <<cb_pc, cb_msg>>
    /\ RecordError(m)
    /\ UNCHANGED <<envVars, now, cacheVars, readVars, objVars, eventVars, gauge,
                    reconnect_delay, timerVars, idle_pc, threadVars, published, cb_todo,
                    main_pc, workerVars, metricVars, auxVars, failures, ana>>

\* MqttConnection._on_message with MqttApiClient._handle_message or
\* _handle_binary_message, up to the cache lock
OnMessage(c, m) ==
    /\ SessionUp(c)
    /\ cb_pc[c] = "idle"
    /\ last_message_time' = IF c \in orphans THEN last_message_time ELSE now
    /\ IF Applies(m)
       THEN /\ cb_pc' = [cb_pc EXCEPT ![c] = "lock"]
            /\ cb_msg' = [cb_msg EXCEPT ![c] = [kind |-> "push", params |-> m.params]]
       ELSE UNCHANGED <<cb_pc, cb_msg>>
    /\ RecordError(m)
    /\ UNCHANGED <<envVars, now, cacheVars, readVars, objVars, loops, eventVars, gauge,
                    reconnect_delay, timerVars, idle_pc, threadVars, published, cb_todo,
                    main_pc, workerVars, metricVars, auxVars, failures, ana>>

\* MqttApiClient._handle_message: self._last_update = time.time() and the
\* lock is released
CbStamp(c) ==
    /\ cb_pc[c] = "update"
    /\ cb_todo[c] = {}
    /\ last_update' = now
    /\ cache_lock' = 0
    /\ cb_pc' = [cb_pc EXCEPT ![c] = "idle"]
    /\ cb_msg' = [cb_msg EXCEPT ![c] = NoLocals]
    /\ UNCHANGED <<envVars, now, quota_cache, last_push_data_time, observed,
                    last_push_arrival, heap, readVars, objVars, loops, eventVars,
                    last_message_time, gauge, reconnect_delay, timerVars, idle_pc,
                    threadVars, published, cb_todo, msg_errors, main_pc, workerVars,
                    metricVars, auxVars, failures, ana>>

\* one message of each kind
SomeParams == [k \in {"soc"} |-> 75]
SupervisionMsgs == {m \in JsonMsgs \cup BinaryMsgs : m.params = SomeParams} \cup BadMsgs

\* messages that only show the supervisor that the session is alive
QuietMsgs == {m \in BinaryMsgs : m.params = Empty} \cup BadMsgs

MqttSupervision ==
    \/ DisconnectTimer
    \/ DisconnectConn
    \/ DisconnectGauge
    \/ \E t \in ThreadIds : ThreadBegin(t)
    \/ \E t \in ThreadIds : ThreadCallOk(t)
    \/ \E t \in ThreadIds : ThreadCallRaise(t)
    \/ \E t \in ThreadIds : ThreadHang(t)
    \/ IdleTickQuiet
    \/ \E t \in ThreadIds : IdleTickReconnect(t)
    \/ IdleJoinDone
    \/ IdleJoinTimeout
    \/ IdleExit

MqttLifecycle ==
    \/ ConnectAuthFail
    \/ ConnectStart
    \/ ConnectCallOk
    \/ ConnectCallRaise
    \/ ConnectFinish
    \/ ConnectTimeout
    \/ \E c \in ClientIds, ok \in BOOLEAN : OnConnect(c, ok)
    \/ \E c \in ClientIds : OnDisconnect(c)
    \/ \E c \in ClientIds : OnSubscribe(c)

MqttIngest(msgs) ==
    \/ \E c \in ClientIds, m \in msgs : OnMessage(c, m)
    \/ \E c \in ClientIds : CbAcquire(c)
    \/ \E c \in ClientIds, k \in Keys : CbWrite(c, k)
    \/ \E c \in ClientIds : CbStamp(c)

InitMqtt ==
    /\ backend = "mqtt"
    /\ horizon = MaxTime
    /\ attempts = 1
    /\ maxclients = MaxClients
    /\ errors_cap = 0
    /\ BackendInit
    /\ WorkerInit
    /\ MetricInit
    /\ AuxInit

NextMqtt ==
    \/ Tick
    \/ MqttLifecycle
    \/ \E c \in ClientIds, m \in QuietMsgs : OnMessage(c, m)
    \/ MqttSupervision

\* the push backend under supervision
SpecMqtt == InitMqtt /\ [][NextMqtt]_vars

\* =========================================================================
\* Request/reply backend: DeviceApiClient (api/device.py)
\* =========================================================================

\* DeviceApiClient._request_quota: does the call publish?
QuotaPublishes ==
    /\ connected
    /\ client # 0
    /\ ~(Truthy(last_push_data_time) /\ now - last_push_data_time < QUOTA_REQUEST_INTERVAL)

\* DeviceApiClient._request_quota
RequestQuota ==
    published' = IF QuotaPublishes THEN published + 1 ELSE published

\* ---------------------------------------------------------- main thread
\* DeviceApiClient.connect: MqttAuthentication.authorize raised
DevConnectAuthFail ==
    /\ main_pc \in {"created", "failed"}
    /\ nconnects < attempts
    /\ nconnects' = nconnects + 1
    /\ main_pc' = "failed"
    /\ UNCHANGED <<envVars, now, cacheVars, readVars, mqtt, client, nclients, orphans,
                    loops, eventVars, last_message_time, gauge, reconnect_delay, timerVars,
                    idle_pc, threadVars, published, cbVars, msg_errors, workerVars,
                    metricVars, auxVars, failures, ana>>

\* DeviceApiClient.connect: _connect_mqtt() up to the broker call
DevConnectStart ==
    /\ main_pc \in {"created", "failed"}
    /\ nconnects < attempts
    /\ nconnects' = nconnects + 1
    /\ ConnBegin(client)
    /\ main_pc' = "m_call"
    /\ UNCHANGED <<envVars, now, cacheVars, readVars, mqtt, orphans, last_message_time,
                    gauge, reconnect_delay, timerVars, idle_pc, threadVars, published,
                    cbVars, msg_errors, workerVars, metricVars, auxVars, failures, ana>>

\* DeviceApiClient._connect_mqtt: client.connect() and loop_start() returned
DevConnectCallOk ==
    /\ main_pc = "m_call"
    /\ ConnCall
    /\ main_pc' = "m_wait"
    /\ UNCHANGED <<envVars, now, cacheVars, readVars, objVars, eventVars, last_message_time,
                    gauge, reconnect_delay, timerVars, idle_pc, threadVars, published,
                    cbVars, msg_errors, workerVars, metricVars, auxVars, failures, ana>>

\* DeviceApiClient._connect_mqtt: client.connect() raised, which leaves connect
DevConnectCallRaise ==
    /\ main_pc = "m_call"
    /\ main_pc' = "failed"
    /\ UNCHANGED <<envVars, now, cacheVars, readVars, objVars, loops, eventVars,
                    last_message_time, gauge, reconnect_delay, timerVars, idle_pc,
                    threadVars, published, cbVars, msg_errors, workerVars, metricVars,
                    auxVars, failures, ana>>

\* DeviceApiClient.connect: _connected.wait(10) returned True, _subscribed.wait(5)
\* returned either way; both timers start, the initial quota request is made
\* and the delay is reset
DevConnectFinish ==
    /\ main_pc = "m_wait"
    /\ connected
    /\ published < MaxPublished
    /\ idle_timer' = "running"
    /\ idle_pc' = "wait"
    /\ quota_timer' = "running"
    /\ RequestQuota
    /\ reconnect_delay' = IDLE_CHECK_INTERVAL
    /\ failures' = 0
    /\ main_pc' = "live"
    /\ UNCHANGED <<envVars, now, cacheVars, readVars, objVars, loops, eventVars,
                    last_message_time, gauge, threadVars, cbVars, msg_errors, workerVars,
                    metricVars, auxVars, ana>>

\* DeviceApiClient.connect: _connected.wait(10) timed out, EcoflowApiException
DevConnectTimeout ==
    /\ main_pc = "m_wait"
    /\ ~connected
    /\ main_pc' = "failed"
    /\ UNCHANGED <<envVars, now, cacheVars, readVars, objVars, loops, eventVars,
                    last_message_time, gauge, reconnect_delay, timerVars, idle_pc,
                    threadVars, published, cbVars, msg_errors, workerVars, metricVars,
                    auxVars, failures, ana>>

\* DeviceApiClient.disconnect: both timers are cancelled
DevDisconnectTimers ==
    /\ main_pc = "live"
    /\ quota_timer' = IF quota_timer = "running" THEN "cancelled" ELSE quota_timer
    /\ idle_timer' = IF idle_timer = "running" THEN "cancelled" ELSE idle_timer
    /\ main_pc' = "d_conn"
    /\ UNCHANGED <<envVars, now, cacheVars, readVars, objVars, loops, eventVars,
                    last_message_time, gauge, reconnect_delay, idle_pc, threadVars,
                    published, cbVars, msg_errors, workerVars, metricVars, auxVars,
                    failures, ana>>

\* DeviceApiClient.disconnect: the client is stopped and dropped, the events
\* are cleared and the call returns
DevDisconnectConn ==
    /\ main_pc = "d_conn"
    /\ client # 0 => cb_pc[client] = "idle"
    /\ loops' = [c \in ClientIds |-> IF c = client THEN "stopped" ELSE loops[c]]
    /\ client' = 0
    /\ connected' = FALSE
    /\ subscribed' = FALSE
    /\ main_pc' = "terminated"
    /\ UNCHANGED <<envVars, now, cacheVars, readVars, mqtt, nclients, nconnects, orphans,
                    last_message_time, gauge, reconnect_delay, timerVars, idle_pc,
                    threadVars, published, cbVars, msg_errors, workerVars, metricVars,
                    auxVars, failures, ana>>

\* DeviceApiClient._get_device_info: the online flag
DevDeviceInfoOnline ==
    IF Truthy(last_update)
    THEN connected /\ (now - last_update < MQTT_TIMEOUT)
    ELSE connected

\* DeviceApiClient.get_device(sn)
DevGetDevice ==
    /\ Reading
    /\ info_online' = IF DevDeviceInfoOnline THEN "online" ELSE "offline"
    /\ UNCHANGED <<envVars, now, cacheVars, snapshot, objVars, loops, eventVars,
                    last_message_time, gauge, reconnect_delay, timerVars, idle_pc,
                    threadVars, published, cbVars, msg_errors, main_pc, workerVars,
                    metricVars, auxVars, failures, ana>>

\* ------------------------------------------------------------ idle timer
\* RepeatTimer.run fired DeviceApiClient._check_idle, which returned at once
DevIdleTickQuiet ==
    /\ idle_timer = "running"
    /\ idle_pc = "wait"
    /\ ~IdleExpired
    /\ UNCHANGED vars

\* RepeatTimer.run fired DeviceApiClient._check_idle, which found the
\* connection idle and goes on to _connect_mqtt() on the timer thread
DevIdleTickReconnect ==
    /\ idle_timer = "running"
    /\ idle_pc = "wait"
    /\ IdleExpired
    /\ idle_pc' = "begin"
    /\ UNCHANGED <<envVars, now, cacheVars, readVars, objVars, loops, eventVars,
                    last_message_time, gauge, reconnect_delay, timerVars, threadVars,
                    published, cbVars, msg_errors, main_pc, workerVars, metricVars, auxVars,
                    failures, ana>>

\* _check_idle: _connect_mqtt() up to the broker call
DevIdleBegin ==
    /\ idle_pc = "begin"
    /\ ConnBegin(client)
    /\ idle_pc' = "call"
    /\ UNCHANGED <<envVars, now, cacheVars, readVars, mqtt, nconnects, orphans,
                    last_message_time, gauge, reconnect_delay, timerVars, threadVars,
                    published, cbVars, msg_errors, main_pc, workerVars, metricVars, auxVars,
                    failures, ana>>

\* _check_idle: client.connect() and loop_start() returned
DevIdleCallOk ==
    /\ idle_pc = "call"
    /\ ConnCall
    /\ idle_pc' = "cwait"
    /\ UNCHANGED <<envVars, now, cacheVars, readVars, objVars, eventVars, last_message_time,
                    gauge, reconnect_delay, timerVars, threadVars, published, cbVars,
                    msg_errors, main_pc, workerVars, metricVars, auxVars, failures, ana>>

\* _check_idle: client.connect() raised; nothing catches it, so it ends
\* RepeatTimer.run and with it the timer thread
DevIdleCallRaise ==
    /\ idle_pc = "call"
    /\ idle_pc' = "dead"
    /\ UNCHANGED <<envVars, now, cacheVars, readVars, objVars, loops, eventVars,
                    last_message_time, gauge, reconnect_delay, timerVars, threadVars,
                    published, cbVars, msg_errors, main_pc, workerVars, metricVars, auxVars,
                    failures, ana>>

\* _check_idle: the library call does not return
DevIdleCallHang ==
    /\ idle_pc = "call"
    /\ idle_pc' = "hung"
    /\ UNCHANGED <<envVars, now, cacheVars, readVars, objVars, loops, eventVars,
                    last_message_time, gauge, reconnect_delay, timerVars, threadVars,
                    published, cbVars, msg_errors, main_pc, workerVars, metricVars, auxVars,
                    failures, ana>>

\* _check_idle: _connected.wait(10) returned True
DevIdleWaitOk ==
    /\ idle_pc = "cwait"
    /\ connected
    /\ last_message_time' = now
    /\ reconnect_delay' = IDLE_CHECK_INTERVAL
    /\ failures' = 0
    /\ idle_pc' = "wait"
    /\ UNCHANGED <<envVars, now, cacheVars, readVars, objVars, loops, eventVars, gauge,
                    timerVars, threadVars, published, cbVars, msg_errors, main_pc,
                    workerVars, metricVars, auxVars, ana>>

\* _check_idle: _connected.wait(10) timed out
DevIdleWaitTimeout ==
    /\ idle_pc = "cwait"
    /\ ~connected
    /\ last_message_time' = now
    /\ reconnect_delay' = Min(reconnect_delay * 2, MAX_RECONNECT_DELAY)
    /\ failures' = failures + 1
    /\ idle_pc' = "wait"
    /\ UNCHANGED <<envVars, now, cacheVars, readVars, objVars, loops, eventVars, gauge,
                    timerVars, threadVars, published, cbVars, msg_errors, main_pc,
                    workerVars, metricVars, auxVars, ana>>

\* ----------------------------------------------------------- quota timer
\* RepeatTimer.run fired DeviceApiClient._request_quota
QuotaTick ==
    /\ quota_timer = "running"
    /\ published < MaxPublished
    /\ RequestQuota
    /\ UNCHANGED <<envVars, now, cacheVars, readVars, objVars, loops, eventVars,
                    last_message_time, gauge, reconnect_delay, timerVars, idle_pc,
                    threadVars, cbVars, msg_errors, main_pc, workerVars, metricVars,
                    auxVars, failures, ana>>

\* ------------------------------------------------------ broker callbacks
\* DeviceApiClient._on_connect
DevOnConnect(c, ok) ==
    /\ loops[c] \in {"connecting", "retrying"}
    /\ cb_pc[c] = "idle"
    /\ last_message_time' = now
    /\ connected' = ok
    /\ loops' = [loops EXCEPT ![c] = IF ~ok THEN "retrying"
                                     ELSE IF @ = "connecting" THEN "up" ELSE "resumed"]
    /\ UNCHANGED <<envVars, now, cacheVars, readVars, objVars, subscribed, gauge,
                    reconnect_delay, timerVars, idle_pc, threadVars, published, cbVars,
                    msg_errors, main_pc, workerVars, metricVars, auxVars, failures, ana>>

\* DeviceApiClient._on_disconnect; the library then retries the session
DevOnDisconnect(c) ==
    /\ SessionUp(c)
    /\ cb_pc[c] = "idle"
    /\ connected' = FALSE
    /\ subscribed' = FALSE
    /\ loops' = [loops EXCEPT ![c] = "retrying"]
    /\ UNCHANGED <<envVars, now, cacheVars, readVars, objVars, last_message_time, gauge,
                    reconnect_delay, timerVars, idle_pc, threadVars, published, cbVars,
                    msg_errors, main_pc, workerVars, metricVars, auxVars, failures, ana>>

\* DeviceApiClient._on_subscribe
DevOnSubscribe(c) ==
    /\ SessionUp(c)
    /\ cb_pc[c] = "idle"
    /\ ~subscribed
    /\ subscribed' = TRUE
    /\ UNCHANGED <<envVars, now, cacheVars, readVars, objVars, loops, connected,
                    last_message_time, gauge, reconnect_delay, timerVars, idle_pc,
                    threadVars, published, cbVars, msg_errors, main_pc, workerVars,
                    metricVars, auxVars, failures, ana>>

\* handlers that merge a latestQuotas reply whatever data.online says
DevAppliesOffline(m) ==
    \/ m.kind = "json"
    \/ m.kind = "reply"
    \/ m.kind = "binary" /\ m.params # Empty

\* Does the handler reach self._quota_cache.update(...)?  DeviceApiClient.
\* _handle_data_message, _handle_quota_reply and _handle_binary_message
DevApplies(m) ==
    \/ m.kind = "json"
    \/ m.kind = "reply" /\ m.online = 1
    \/ m.kind = "binary" /\ m.params # Empty

\* Does the handler record the push time?  Only _handle_data_message does.
StampsPush(kind) == kind = "json"

\* DeviceApiClient._on_message with the handler of the topic, up to the
\* cache lock
DevOnMessage(c, m) ==
    /\ SessionUp(c)
    /\ cb_pc[c] = "idle"
    /\ last_message_time' = now
    /\ IF DevApplies(m)
       THEN /\ cb_pc' = [cb_pc EXCEPT ![c] = "lock"]
            /\ cb_msg' = [cb_msg EXCEPT ![c] = [kind |-> m.kind, params |-> m.params]]
       ELSE UNCHANGED <<cb_pc, cb_msg>>
    /\ RecordError(m)
    /\ UNCHANGED <<envVars, now, cacheVars, readVars, objVars, loops, eventVars, gauge,
                    reconnect_delay, timerVars, idle_pc, threadVars, published, cb_todo,
                    main_pc, workerVars, metricVars, auxVars, failures, ana>>

\* The timestamps are written and the lock is released:
\* _handle_data_message, _handle_quota_reply, _handle_binary_message
DevCbStamp(c) ==
    /\ cb_pc[c] = "update"
    /\ cb_todo[c] = {}
    /\ last_update' = now
    /\ last_push_data_time' = IF StampsPush(cb_msg[c].kind) THEN now
                             ELSE last_push_data_time
    /\ last_push_arrival' = IF cb_msg[c].kind \in {"json", "binary"} THEN now
                           ELSE last_push_arrival
    /\ cache_lock' = 0
    /\ cb_pc' = [cb_pc EXCEPT ![c] = "idle"]
    /\ cb_msg' = [cb_msg EXCEPT ![c] = NoLocals]
    /\ UNCHANGED <<envVars, now, quota_cache, observed, heap, readVars, objVars, loops,
                    eventVars, last_message_time, gauge, reconnect_delay, timerVars,
                    idle_pc, threadVars, published, cb_todo, msg_errors, main_pc,
                    workerVars, metricVars, auxVars, failures, ana>>

DevSupervisionMsgs ==
    {m \in JsonMsgs \cup BinaryMsgs : m.params = SomeParams} \cup BadMsgs
    \cup {m \in ReplyMsgs : m.kind = "reply" /\ m.online = 1 /\ m.params = SomeParams}

DevSupervision ==
    \/ DevDisconnectTimers
    \/ DevDisconnectConn
    \/ DevIdleTickQuiet
    \/ DevIdleTickReconnect
    \/ DevIdleBegin
    \/ DevIdleCallOk
    \/ DevIdleCallRaise
    \/ DevIdleCallHang
    \/ DevIdleWaitOk
    \/ DevIdleWaitTimeout
    \/ IdleExit
    \/ QuotaTick

DevLifecycle ==
    \/ DevConnectAuthFail
    \/ DevConnectStart
    \/ DevConnectCallOk
    \/ DevConnectCallRaise
    \/ DevConnectFinish
    \/ DevConnectTimeout
    \/ \E c \in ClientIds, ok \in BOOLEAN : DevOnConnect(c, ok)
    \/ \E c \in ClientIds : DevOnDisconnect(c)
    \/ \E c \in ClientIds : DevOnSubscribe(c)

DevIngest(msgs) ==
    \/ \E c \in ClientIds, m \in msgs : DevOnMessage(c, m)
    \/ \E c \in ClientIds : CbAcquire(c)
    \/ \E c \in ClientIds, k \in Keys : CbWrite(c, k)
    \/ \E c \in ClientIds : DevCbStamp(c)

InitDevice ==
    /\ backend = "device"
    /\ horizon = MaxTime
    /\ attempts = 1
    /\ maxclients = MaxClients
    /\ errors_cap = 0
    /\ BackendInit
    /\ WorkerInit
    /\ MetricInit
    /\ AuxInit

NextDevice == Tick \/ DevLifecycle \/ DevIngest(DevSupervisionMsgs) \/ DevSupervision

\* the request/reply backend under supervision
SpecDevice == InitDevice /\ [][NextDevice]_vars

\* =========================================================================
\* The quota cache of either backend: every message and reads of the cache
\* =========================================================================
MqttAllMsgs == JsonMsgs \cup BinaryMsgs \cup BadMsgs
DevAllMsgs == JsonMsgs \cup BinaryMsgs \cup BadMsgs \cup ReplyMsgs \cup BadReplyMsgs

InitCache ==
    /\ backend \in {"mqtt", "device"}
    /\ horizon = TimeStep
    /\ attempts = MaxConnects
    /\ maxclients = MaxClients
    /\ errors_cap = 0
    /\ BackendInit
    /\ WorkerInit
    /\ MetricInit
    /\ AuxInit

\* the calls and callbacks that bring broker sessions up
MqttBringUp ==
    \/ ConnectStart
    \/ ConnectCallOk
    \/ ConnectFinish
    \/ ConnectTimeout
    \/ \E c \in ClientIds : OnConnect(c, TRUE)

DevBringUp ==
    \/ DevConnectStart
    \/ DevConnectCallOk
    \/ DevConnectFinish
    \/ DevConnectTimeout
    \/ \E c \in ClientIds : DevOnConnect(c, TRUE)

NextCache ==
    \/ GetDeviceQuota
    \/ backend = "mqtt" /\ (MqttBringUp \/ MqttIngest(MqttAllMsgs))
    \/ backend = "device" /\ (DevBringUp \/ DevIngest(DevAllMsgs))

SpecCache == InitCache /\ [][NextCache]_vars

\* =========================================================================
\* The device status of either backend: the clock, the session, reads of
\* the status
\* =========================================================================
InitStatus ==
    /\ backend \in {"mqtt", "device"}
    /\ horizon = CacheMaxTime
    /\ attempts = MaxConnects
    /\ maxclients = MaxClients
    /\ errors_cap = 0
    /\ BackendInit
    /\ WorkerInit
    /\ MetricInit
    /\ AuxInit

NextStatus ==
    \/ Tick
    \/ backend = "mqtt" /\
         (GetDevice \/ MqttLifecycle \/ MqttIngest(SupervisionMsgs)
          \/ DisconnectTimer \/ DisconnectConn \/ DisconnectGauge)
    \/ backend = "device" /\
         (DevGetDevice \/ DevLifecycle \/ DevIngest(DevSupervisionMsgs)
          \/ DevDisconnectTimers \/ DevDisconnectConn)

SpecStatus == InitStatus /\ [][NextStatus]_vars


\* ------------------------------------------------------------------ worker
\* What one iteration meets: get_device returns no device ("none"), an
\* offline or an online device, or raises; get_device_quota and the metric
\* update return or raise; n is the number of scalars in the quota map.
DeviceResults == {"none", "offline", "online", "raise"}
CallResults == {"ok", "raise"}

\* _reset_metrics that clears nothing
ResetMetricsKeeps(m) == m

\* Worker._reset_metrics
ResetMetrics(m) == IF m = "none" THEN "none" ELSE "cleared"

\* the try block of Worker._collect_data
CollectBody(dev, quota, upd, n, m) ==
    IF dev = "raise"
    THEN [statuses |-> <<>>, online |-> w_online, collected |-> w_collected,
          metrics |-> m, fetched |-> FALSE, raised |-> TRUE]
    ELSE IF dev = "none"
    THEN [statuses |-> <<"not_found">>, online |-> 0, collected |-> 0,
          metrics |-> m, fetched |-> FALSE, raised |-> FALSE]
    ELSE IF dev = "offline"
    THEN [statuses |-> <<"offline">>, online |-> 0, collected |-> 0,
          metrics |-> ResetMetrics(m), fetched |-> FALSE, raised |-> FALSE]
    ELSE IF quota = "raise"
    THEN [statuses |-> <<>>, online |-> 1, collected |-> w_collected,
          metrics |-> m, fetched |-> TRUE, raised |-> TRUE]
    ELSE IF upd = "raise"
    THEN [statuses |-> <<>>, online |-> 1, collected |-> w_collected,
          metrics |-> IF n > 0 THEN "set" ELSE m, fetched |-> TRUE, raised |-> TRUE]
    ELSE [statuses |-> <<"success">>, online |-> 1, collected |-> n,
          metrics |-> IF n > 0 THEN "set" ELSE m, fetched |-> TRUE, raised |-> FALSE]

\* _collect_data whose except block leaves the online gauge as the try block
\* left it
CollectDataKeepsOnline(dev, quota, upd, n, m) ==
    LET b == CollectBody(dev, quota, upd, n, m)
    IN  IF b.raised
        THEN [statuses |-> Append(b.statuses, "error"), online |-> b.online,
              collected |-> 0, metrics |-> ResetMetrics(b.metrics),
              fetched |-> b.fetched, raised |-> TRUE]
        ELSE b

\* _collect_data without its except block: the exception passes through
CollectDataUnhandled(dev, quota, upd, n, m) == CollectBody(dev, quota, upd, n, m)

\* Worker._collect_data: the try block, then the except block, which re-raises
CollectData(dev, quota, upd, n, m) ==
    LET b == CollectBody(dev, quota, upd, n, m)
    IN  IF b.raised
        THEN [statuses |-> Append(b.statuses, "error"), online |-> 0,
              collected |-> 0, metrics |-> ResetMetrics(b.metrics),
              fetched |-> b.fetched, raised |-> TRUE]
        ELSE b

\* Worker.run: the sleep after _collect_data returned or raised
RunSleep(raised) == IF raised THEN RETRY_TIMEOUT ELSE COLLECTING_INTERVAL

\* Worker.run: one pass of the loop body, up to the sleep
WorkerCollect(dev, quota, upd, n) ==
    /\ w_pc = "collect"
    /\ w_iter < MaxIter
    /\ LET r == CollectData(dev, quota, upd, n, w_metrics)
       IN  /\ w_status' = r.statuses
           /\ w_online' = r.online
           /\ w_collected' = r.collected
           /\ w_metrics' = r.metrics
           /\ w_fetched' = r.fetched
           /\ w_scrapes' = [s \in Statuses |->
                  w_scrapes[s] + Cardinality({i \in DOMAIN r.statuses : r.statuses[i] = s})]
           /\ w_sleep' = RunSleep(r.raised)
    /\ w_pc' = "sleep"
    /\ w_iter' = w_iter + 1
    /\ UNCHANGED <<envVars, now, cacheVars, readVars, objVars, loops, eventVars,
                    last_message_time, gauge, reconnect_delay, timerVars, idle_pc,
                    threadVars, published, cbVars, msg_errors, main_pc, w_connection_errors,
                    metricVars, auxVars, failures, ana>>

\* Worker.run: time.sleep returns and the loop starts over
WorkerWake ==
    /\ w_pc = "sleep"
    /\ w_pc' = "collect"
    /\ w_status' = <<>>
    /\ w_sleep' = 0
    /\ w_fetched' = FALSE
    /\ UNCHANGED <<envVars, now, cacheVars, readVars, objVars, loops, eventVars,
                    last_message_time, gauge, reconnect_delay, timerVars, idle_pc,
                    threadVars, published, cbVars, msg_errors, main_pc, w_online,
                    w_collected, w_iter, w_scrapes, w_metrics, w_connection_errors,
                    metricVars, auxVars, failures, ana>>

InitWorker ==
    /\ backend \in {"mqtt", "device"}
    /\ horizon = TimeStep
    /\ attempts = 0
    /\ maxclients = MaxClients
    /\ errors_cap = 0
    /\ BackendInit
    /\ WorkerInit
    /\ MetricInit
    /\ AuxInit

NextWorker ==
    \/ \E dev \in DeviceResults, quota \in CallResults, upd \in CallResults,
          n \in 0..MaxScalars : WorkerCollect(dev, quota, upd, n)
    \/ WorkerWake

SpecWorker == InitWorker /\ [][NextWorker]_vars

\* ------------------------------------------------------------ metric pool
\* A quota key is a sequence of tokens: a lower-case letter, an upper-case
\* letter, a dot, an underscore, and the array indices [0] and [1].
KeyTokens == {"a", "B", ".", "_", "[0]", "[1]"}
IndexTokens == {"[0]", "[1]"}

IsIndex(x) == x \in IndexTokens
IsUpper(x) == x = "B"
IsLower(x) == x = "a"
\* keys start with a letter and end with a letter or an index
MetricKeys ==
    {key \in UNION {[1..n -> KeyTokens] : n \in 1..MaxKeyLen} :
        /\ key[1] \in {"a", "B"}
        /\ key[Len(key)] \in {"a", "B"} \cup IndexTokens}

\* str.lower() of one token
LowerOf(x) == IF x = "B" THEN "b" ELSE x

\* EcoflowMetric._extract_indexes: the name without its [n] parts, and the
\* index labels in order of appearance
ExtractIndexes(key) ==
    [name |-> SelectSeq(key, LAMBDA x : ~IsIndex(x)),
     labels |-> SelectSeq(key, IsIndex)]

\* re.sub(r"[.\[\]]", "_", string)
FoldDots(s) == [i \in 1..Len(s) |-> IF s[i] = "." THEN "_" ELSE s[i]]

\* re.sub(r"_+", "_", result)
RECURSIVE Collapse(_)
Collapse(s) ==
    IF Len(s) < 2 THEN s
    ELSE IF s[1] = "_" /\ s[2] = "_" THEN Collapse(Tail(s))
    ELSE <<s[1]>> \o Collapse(Tail(s))

\* str.strip("_")
RECURSIVE Strip(_)
Strip(s) ==
    IF s = <<>> THEN s
    ELSE IF s[1] = "_" THEN Strip(Tail(s))
    ELSE IF s[Len(s)] = "_" THEN Strip(SubSeq(s, 1, Len(s) - 1))
    ELSE s

\* inflection.underscore: "_" goes between an upper-case run and a following
\* capitalised word, and between a lower-case letter and an upper-case one;
\* then the word is lower-cased
Underscore(s) ==
    LET Breaks(i) ==
            /\ i > 1
            /\ IsUpper(s[i])
            /\ \/ IsLower(s[i - 1])
               \/ IsUpper(s[i - 1]) /\ i < Len(s) /\ IsLower(s[i + 1])
        F[i \in 0..Len(s)] ==
            IF i = 0 THEN <<>>
            ELSE F[i - 1] \o (IF Breaks(i) THEN <<"_">> ELSE <<>>) \o <<LowerOf(s[i])>>
    IN  F[Len(s)]

\* EcoflowMetric._to_snake_case
ToSnakeCase(s) == Underscore(Strip(Collapse(FoldDots(s))))

\* the Prometheus name a key stands for, without METRICS_PREFIX
ShapeName(key) == ToSnakeCase(ExtractIndexes(key).name)

\* EcoflowMetric.__init__: look the name up in METRICS_POOL; if it is absent
\* create the metric with the label names LABEL_NAMES + index_0.., which
\* registers its shape name and raises ValueError when the registry has it
\* already, and only then enter it in the pool. The handle keeps the index
\* labels of its own key: labels counts them, labelnames counts those the
\* metric was created with.
NewMetric(key) ==
    /\ m_count < MaxMetrics
    /\ m_count' = m_count + 1
    /\ LET name == ExtractIndexes(key).name
           index_labels == Len(ExtractIndexes(key).labels)
           shape == ToSnakeCase(name)
           Last(reused, attempted, raised, labelnames) ==
               [reused |-> reused, attempted |-> attempted, raised |-> raised,
                labels |-> index_labels, labelnames |-> labelnames, set |-> "none"]
       IN  IF name \in DOMAIN m_pool
           THEN /\ m_last' = Last(TRUE, FALSE, FALSE, m_pool[name].labelnames)
                /\ UNCHANGED <<m_pool, m_registry>>
           ELSE IF shape \in m_registry
           THEN /\ m_last' = Last(FALSE, TRUE, TRUE, 0)
                /\ UNCHANGED <<m_pool, m_registry>>
           ELSE /\ m_last' = Last(FALSE, TRUE, FALSE, index_labels)
                /\ m_registry' = m_registry \cup {shape}
                /\ m_pool' = [x \in DOMAIN m_pool \cup {name} |->
                                 IF x = name
                                 THEN [shape |-> shape, labelnames |-> index_labels]
                                 ELSE m_pool[x]]
    /\ UNCHANGED <<envVars, now, cacheVars, readVars, objVars, loops, eventVars,
                    last_message_time, gauge, reconnect_delay, timerVars, idle_pc,
                    threadVars, published, cbVars, msg_errors, main_pc, workerVars, auxVars,
                    failures, ana>>

\* EcoflowMetric.set(value) on the handle just made: labels(**self.labels)
\* raises ValueError unless the names given are the metric's label names
MetricSet ==
    /\ m_last.reused \/ (m_last.attempted /\ ~m_last.raised)
    /\ m_last.set = "none"
    /\ m_last' = [m_last EXCEPT !.set = IF m_last.labels = m_last.labelnames
                                        THEN "ok" ELSE "ValueError"]
    /\ UNCHANGED <<envVars, now, cacheVars, readVars, objVars, loops, eventVars,
                    last_message_time, gauge, reconnect_delay, timerVars, idle_pc,
                    threadVars, published, cbVars, msg_errors, main_pc, workerVars, m_pool,
                    m_registry, m_count, auxVars, failures, ana>>

InitMetric ==
    /\ backend \in {"mqtt", "device"}
    /\ horizon = TimeStep
    /\ attempts = 0
    /\ maxclients = MaxClients
    /\ errors_cap = 0
    /\ BackendInit
    /\ WorkerInit
    /\ MetricInit
    /\ AuxInit

NextMetric ==
    \/ \E key \in MetricKeys : NewMetric(key)
    \/ MetricSet

SpecMetric == InitMetric /\ [][NextMetric]_vars

\* =========================================================================
\* The map get_device_quota returns, in the hands of its caller
\* =========================================================================
\* push messages whose value for "soc" is a number or a nested map
SnapshotMsgs ==
    {[kind |-> "json", online |-> 0, params |-> [k \in {"soc"} |-> x]] : x \in {85} \cup Refs}

\* what get_device_quota would return now, nested maps by content
ReadValue ==
    [k \in DOMAIN quota_cache |->
        IF quota_cache[k] \in Refs THEN <<heap[quota_cache[k]]>> ELSE quota_cache[k]]

\* the caller assigns to a key of the returned map: quota[k] = v
CallerSetsKey(k, v) ==
    /\ snapshot # Unread
    /\ snapshot' = DictSet(snapshot, k, v)
    /\ UNCHANGED <<envVars, now, cacheVars, info_online, objVars, loops, eventVars,
                    last_message_time, gauge, reconnect_delay, timerVars, idle_pc,
                    threadVars, published, cbVars, msg_errors, main_pc, workerVars,
                    metricVars, auxVars, failures, ana>>

\* the caller assigns inside a nested map of the returned map: quota[k][..] = v
CallerSetsNested(k, v) ==
    /\ snapshot # Unread
    /\ k \in DOMAIN snapshot
    /\ snapshot[k] \in Refs
    /\ heap' = [heap EXCEPT ![snapshot[k]] = v]
    /\ UNCHANGED <<envVars, now, quota_cache, cache_lock, last_update, last_push_data_time,
                    observed, last_push_arrival, readVars, objVars, loops, eventVars,
                    last_message_time, gauge, reconnect_delay, timerVars, idle_pc,
                    threadVars, published, cbVars, msg_errors, main_pc, workerVars,
                    metricVars, auxVars, failures, ana>>

InitSnapshot ==
    /\ backend \in {"mqtt", "device"}
    /\ horizon = TimeStep
    /\ attempts = 1
    /\ maxclients = MaxClients
    /\ errors_cap = 0
    /\ BackendInit
    /\ WorkerInit
    /\ MetricInit
    /\ AuxInit

NextSnapshot ==
    \/ GetDeviceQuota
    \/ \E k \in Keys, v \in Vals : CallerSetsKey(k, v) \/ CallerSetsNested(k, v)
    \/ backend = "mqtt" /\ (MqttBringUp \/ MqttIngest(SnapshotMsgs))
    \/ backend = "device" /\ (DevBringUp \/ DevIngest(SnapshotMsgs))

SpecSnapshot == InitSnapshot /\ [][NextSnapshot]_vars

\* =========================================================================
\* The reconnect delay of either backend: failed reconnect attempts one after
\* another, far enough in time for the delay to reach its cap
\* =========================================================================
InitBackoff ==
    /\ backend \in {"mqtt", "device"}
    /\ horizon = BackoffMaxTime
    /\ attempts = 1
    /\ maxclients = BackoffClients
    /\ errors_cap = 0
    /\ BackendInit
    /\ WorkerInit
    /\ MetricInit
    /\ AuxInit

MqttBackoff ==
    \/ MqttBringUp
    \/ \E c \in ClientIds : OnConnect(c, FALSE)
    \/ \E t \in ThreadIds : ThreadBegin(t)
    \/ \E t \in ThreadIds : ThreadCallOk(t)
    \/ \E t \in ThreadIds : ThreadCallRaise(t)
    \/ IdleTickQuiet
    \/ \E t \in ThreadIds : IdleTickReconnect(t)
    \/ IdleJoinDone
    \/ IdleJoinTimeout

DevBackoff ==
    \/ DevBringUp
    \/ \E c \in ClientIds : DevOnConnect(c, FALSE)
    \/ DevIdleTickQuiet
    \/ DevIdleTickReconnect
    \/ DevIdleBegin
    \/ DevIdleCallOk
    \/ DevIdleWaitOk
    \/ DevIdleWaitTimeout

NextBackoff ==
    \/ Tick
    \/ backend = "mqtt" /\ MqttBackoff
    \/ backend = "device" /\ DevBackoff

SpecBackoff == InitBackoff /\ [][NextBackoff]_vars

\* =========================================================================
\* Ingestion on one session of either backend: every kind of message, well
\* formed or not, with the handlers' errors counted
\* =========================================================================
InitIngest ==
    /\ backend \in {"mqtt", "device"}
    /\ horizon = 2 * TimeStep
    /\ attempts = 1
    /\ maxclients = MaxClients
    /\ errors_cap = MaxErrors
    /\ BackendInit
    /\ WorkerInit
    /\ MetricInit
    /\ AuxInit

NextIngest ==
    \/ Tick
    \/ backend = "mqtt" /\ (MqttBringUp \/ MqttIngest(MqttAllMsgs))
    \/ backend = "device" /\ (DevBringUp \/ DevIngest(DevAllMsgs))

SpecIngest == InitIngest /\ [][NextIngest]_vars

\* ============================================================== projection
\* Worker._update_metrics on a quota map. A value is a record: t is its
\* Python type and items its elements (of a list, in order) or its entries
\* (of a dict, in order; the entries' keys are "x", "y", ... by position).

\* the key of the i-th entry of a dict
SubKey(i) == <<"x", "y", "z", "w">>[i]

\* quota maps: one entry "a", whose value is a scalar, a list or dict of up
\* to MaxItems scalars, or a list or dict of one of those, alone or followed
\* by a scalar; or the entries "a" and "b"
StatisticsMaps ==
    LET Scalar(t) == [t |-> t, items |-> <<>>]
        Scalars == {Scalar(t) : t \in {"int", "float", "bool", "str", "NoneType"}}
        Flat == {[t |-> t, items |-> s] :
                    t \in {"list", "dict"},
                    s \in UNION {[1..n -> Scalars] : n \in 0..MaxItems}}
        Inner == Scalars \cup Flat
        Deep == {[t |-> t, items |-> s] :
                    t \in {"list", "dict"},
                    s \in {<<v>> : v \in Inner} \cup {<<v, w>> : v \in Inner, w \in Scalars}}
    IN  {[items |-> <<[key |-> "a", value |-> v]>>] : v \in Inner \cup Deep}
        \cup {[items |-> <<[key |-> "a", value |-> v], [key |-> "b", value |-> w]>>] :
                v \in Scalars, w \in Flat}

\* isinstance(value, (int, float)) that does not take bool for an int
IsNumberStrict(value) == value.t \in {"int", "float"}

\* isinstance(value, (int, float)): bool is a subclass of int
IsNumber(value) == value.t \in {"int", "float", "bool"}

\* Worker._update_metric(key, value): the count it returns and the keys whose
\* metric it set, in order
RECURSIVE UpdateMetric(_, _)
UpdateMetric(key, value) ==
    LET RECURSIVE Each(_, _)
        Each(i, acc) ==
            IF i > Len(value.items) THEN acc
            ELSE LET sub == IF value.t = "list"
                            THEN key \o "[" \o ToString(i - 1) \o "]"
                            ELSE key \o "." \o SubKey(i)
                     r == UpdateMetric(sub, value.items[i])
                 IN  Each(i + 1, [count |-> acc.count + r.count, keys |-> acc.keys \o r.keys])
    IN  IF IsNumber(value) THEN [count |-> 1, keys |-> <<key>>]
        ELSE IF value.t \in {"list", "dict"} THEN Each(1, [count |-> 0, keys |-> <<>>])
        ELSE [count |-> 0, keys |-> <<>>]

\* Worker._update_metrics(statistics)
UpdateMetrics(statistics) ==
    LET RECURSIVE Each(_, _)
        Each(i, acc) ==
            IF i > Len(statistics.items) THEN acc
            ELSE LET r == UpdateMetric(statistics.items[i].key, statistics.items[i].value)
                 IN  Each(i + 1, [count |-> acc.count + r.count, keys |-> acc.keys \o r.keys])
    IN  Each(1, [count |-> 0, keys |-> <<>>])

\* worker._update_metrics(statistics) is called
CallUpdateMetrics ==
    /\ call.fn = "update_metrics"
    /\ ~ret.done
    /\ ret' = [done |-> TRUE, raised |-> FALSE,
               value |-> UpdateMetrics(call.arg).count,
               keys |-> UpdateMetrics(call.arg).keys]
    /\ UNCHANGED <<envVars, now, cacheVars, readVars, objVars, loops, eventVars,
                    last_message_time, gauge, reconnect_delay, timerVars, idle_pc,
                    threadVars, published, cbVars, msg_errors, main_pc, workerVars,
                    metricVars, call, boot, rest, failures, ana>>

\* ---------------------------------------------------------------- authorize
\* The session fields of a MqttAuthentication: as the constructor leaves them,
\* or as an earlier successful authorize() left them.
Sessions ==
    {[mqtt_url |-> "mqtt.ecoflow.com", mqtt_port |-> 8883, mqtt_username |-> "None",
      mqtt_password |-> "None", mqtt_client_id |-> "None",
      user_id |-> "None", user_name |-> "None"],
     [mqtt_url |-> "mqtt-a.ecoflow.com", mqtt_port |-> 8084, mqtt_username |-> "acct1",
      mqtt_password |-> "pass1", mqtt_client_id |-> "ANDROID_UUID1_user1",
      user_id |-> "user1", user_name |-> "name1"]}

\* What an HTTP exchange yields: the request fails, the response is rejected
\* by _parse_response, or it is accepted with some of the keys under "data".
Responses(keys) ==
    {[status |-> s, fields |-> {}, port |-> "8883"] : s \in {"request_failed", "rejected"}}
    \cup {[status |-> "ok", fields |-> f, port |-> p] :
            f \in SUBSET keys, p \in {"8883", "tls"}}

\* the answers to the login and to the certification request
AuthCalls ==
    {[session |-> s, login |-> l, creds |-> c] :
        s \in Sessions,
        l \in {r \in Responses({"token", "userId", "name"}) : r.port = "8883"},
        c \in Responses({"url", "port", "certificateAccount", "certificatePassword"})}

\* int() of the port texts above
IntOf(text) == IF text = "8883" THEN 8883 ELSE -1

\* MqttAuthentication._login(): (token, user_id, user_name) or an exception
Login(login) ==
    IF login.status # "ok" \/ login.fields # {"token", "userId", "name"}
    THEN [raised |-> "EcoflowApiException", user_id |-> "None", user_name |-> "None"]
    ELSE [raised |-> "none", user_id |-> "user2", user_name |-> "name2"]

\* MqttAuthentication._get_mqtt_credentials(token, user_id): the fields are
\* assigned one after the other, each from its own key of the response
GetMqttCredentials(session, creds, user_id) ==
    LET Out(e, s) == [raised |-> e, session |-> s]
        s1 == [session EXCEPT !.mqtt_url = "mqtt-b.ecoflow.com"]
        s2 == [s1 EXCEPT !.mqtt_port = IntOf(creds.port)]
        s3 == [s2 EXCEPT !.mqtt_username = "acct2"]
        s4 == [s3 EXCEPT !.mqtt_password = "pass2"]
        s5 == [s4 EXCEPT !.mqtt_client_id = "ANDROID_UUID2_" \o user_id]
    IN  IF creds.status # "ok" THEN Out("EcoflowApiException", session)
        ELSE IF "url" \notin creds.fields THEN Out("EcoflowApiException", session)
        ELSE IF "port" \notin creds.fields THEN Out("EcoflowApiException", s1)
        ELSE IF IntOf(creds.port) < 0 THEN Out("ValueError", s1)
        ELSE IF "certificateAccount" \notin creds.fields THEN Out("EcoflowApiException", s2)
        ELSE IF "certificatePassword" \notin creds.fields THEN Out("EcoflowApiException", s3)
        ELSE Out("none", s5)

\* MqttAuthentication.authorize(client_type)
Authorize(a) ==
    LET l == Login(a.login)
        c == GetMqttCredentials(a.session, a.creds, l.user_id)
    IN  IF l.raised # "none" THEN [raised |-> l.raised, session |-> a.session]
        ELSE IF c.raised # "none" THEN c
        ELSE [raised |-> "none",
              session |-> [c.session EXCEPT !.user_id = l.user_id,
                                            !.user_name = l.user_name]]

\* auth.authorize() is called
CallAuthorize ==
    /\ call.fn = "authorize"
    /\ ~ret.done
    /\ ret' = [done |-> TRUE, raised |-> Authorize(call.arg).raised,
               value |-> Authorize(call.arg).session]
    /\ UNCHANGED <<envVars, now, cacheVars, readVars, objVars, loops, eventVars,
                    last_message_time, gauge, reconnect_delay, timerVars, idle_pc,
                    threadVars, published, cbVars, msg_errors, main_pc, workerVars,
                    metricVars, call, boot, rest, failures, ana>>

\* =========================================================================
\* Stateless helpers: ProtobufDecoder (proto/decoder.py) and create_client
\* (api/__init__.py). A call is drawn by Init and applied by one action.
\* =========================================================================

\* ---------------------------------------------------------------- decoder
\* raw_data: bytes that parse as a container of headers, or do not. The
\* pdata of a header is told by what the sender serialised (a
\* DisplayPropertyUpload with these fields, or bytes that are no such
\* message) and by whether the bytes on the wire are XORed with seq.
Containers ==
    LET Payloads ==
            {[corrupt |-> TRUE, fields |-> Empty],
             [corrupt |-> FALSE, fields |-> [k \in {"soc"} |-> 75]],
             [corrupt |-> FALSE, fields |-> [k \in Keys |-> 85]]}
        Header(c, e, w, p) ==
            [cmd_func |-> c[1], cmd_id |-> c[2], enc_type |-> e[1], src |-> e[2],
             wire |-> w, pdata |-> p]
        Headers ==
            {Header(<<254, 21>>, e, w, p) :
                e \in {<<0, 1>>, <<1, 1>>, <<1, 32>>},
                w \in {"plain", "xored"},
                p \in Payloads}
            \cup {Header(c, <<0, 1>>, "plain", [corrupt |-> FALSE, fields |-> [k \in Keys |-> 85]]) :
                     c \in {<<254, 100>>, <<100, 21>>}}
    IN  {[parses |-> TRUE, msg |-> m] :
            m \in UNION {[1..n -> Headers] : n \in 0..MaxHeaders}}
        \cup {[parses |-> FALSE, msg |-> <<>>]}

\* the test for handled headers that looks at cmd_func only
HandledAnyCmdId(h) == h.cmd_func = 254

\* is the header a DisplayPropertyUpload the decoder handles?
Handled(h) == h.cmd_func = 254 /\ h.cmd_id = 21

\* msg.ParseFromString(pdata) succeeds. The bytes handed to it went through
\* _xor_decode if enc_type == 1 and src != 32: XORing with seq turns encoded
\* bytes into plain ones and plain ones into others.
InnerParses(h) ==
    LET pdata == IF h.enc_type = 1 /\ h.src # 32
                 THEN (IF h.wire = "xored" THEN "plain" ELSE "xored")
                 ELSE h.wire
    IN  pdata = "plain" /\ ~h.pdata.corrupt

\* result.update(d)
DictUpdate(result, d) ==
    [k \in DOMAIN result \cup DOMAIN d |-> IF k \in DOMAIN d THEN d[k] ELSE result[k]]

\* decode without the try around the inner parse: the first header that
\* fails ends the loop in the outer except clause
DecodeAbortsOnFailure(c) ==
    LET RECURSIVE Loop(_, _)
        Loop(i, result) ==
            IF i > Len(c.msg) THEN result
            ELSE LET h == c.msg[i]
                 IN  IF ~Handled(h) THEN Loop(i + 1, result)
                     ELSE IF InnerParses(h)
                     THEN Loop(i + 1, DictUpdate(result, h.pdata.fields))
                     ELSE result
    IN  IF ~c.parses THEN [raised |-> FALSE, value |-> Empty]
        ELSE [raised |-> FALSE, value |-> Loop(1, Empty)]

\* ProtobufDecoder.decode
Decode(c) ==
    LET RECURSIVE Loop(_, _)
        Loop(i, result) ==
            IF i > Len(c.msg) THEN result
            ELSE LET h == c.msg[i]
                 IN  IF ~Handled(h) THEN Loop(i + 1, result)
                     ELSE IF InnerParses(h)
                     THEN Loop(i + 1, DictUpdate(result, h.pdata.fields))
                     ELSE Loop(i + 1, result)
    IN  IF ~c.parses THEN [raised |-> FALSE, value |-> Empty]
        ELSE [raised |-> FALSE, value |-> Loop(1, Empty)]

\* decoder.decode(raw_data) is called
CallDecode ==
    /\ call.fn = "decode"
    /\ ~ret.done
    /\ ret' = [done |-> TRUE, raised |-> Decode(call.arg).raised,
               value |-> Decode(call.arg).value]
    /\ UNCHANGED <<envVars, now, cacheVars, readVars, objVars, loops, eventVars,
                    last_message_time, gauge, reconnect_delay, timerVars, idle_pc,
                    threadVars, published, cbVars, msg_errors, main_pc, workerVars,
                    metricVars, call, boot, rest, failures, ana>>

\* a ^ b on non-negative integers
RECURSIVE BitXor(_, _)
BitXor(a, b) ==
    IF a = 0 /\ b = 0 THEN 0
    ELSE (((a % 2) + (b % 2)) % 2) + 2 * BitXor(a \div 2, b \div 2)

\* byte-wise addition of seq instead of XOR
XorDecodeAdds(pdata, seq) == [i \in 1..Len(pdata) |-> (pdata[i] + seq) % 256]

\* ProtobufDecoder._xor_decode: bytes((b ^ seq) & 0xFF for b in pdata)
XorDecode(pdata, seq) == [i \in 1..Len(pdata) |-> BitXor(pdata[i], seq) % 256]

\* byte strings and sequence values the helper is called with: every single
\* byte, and longer strings over a few bytes
XorCalls ==
    {[pdata |-> p, seq |-> s] :
        p \in {<<b>> : b \in 0..255}
               \cup UNION {[1..n -> {0, 90, 255}] : n \in 0..MaxBytes},
        s \in 0..255}

\* decoder._xor_decode(pdata, seq) is called
CallXorDecode ==
    /\ call.fn = "xor_decode"
    /\ ~ret.done
    /\ ret' = [done |-> TRUE, raised |-> FALSE,
               value |-> XorDecode(call.arg.pdata, call.arg.seq)]
    /\ UNCHANGED <<envVars, now, cacheVars, readVars, objVars, loops, eventVars,
                    last_message_time, gauge, reconnect_delay, timerVars, idle_pc,
                    threadVars, published, cbVars, msg_errors, main_pc, workerVars,
                    metricVars, call, boot, rest, failures, ana>>

\* ----------------------------------------------------------- create_client
\* The environment create_client reads and its argument. A variable is
\* unset, empty or set; ECOFLOW_API_TYPE is unset or one of some spellings.
Configs ==
    LET EnvValues == {"unset", "", "x"}
        ApiTypes == {"unset", "", "mqtt", "MQTT", "Mqtt", "device", "Device", "rest"}
    IN  {[access_key |-> a, secret_key |-> s, account_user |-> u,
          account_password |-> p, api_type |-> t, device_sn |-> d] :
            a \in EnvValues, s \in EnvValues, u \in EnvValues, p \in EnvValues,
            t \in ApiTypes, d \in EnvValues}

\* Python truthiness of an optional string: None and "" are falsy
Given(s) == s \notin {"unset", ""}

\* str.lower() that leaves the string as it is
LowerKeepsCase(s) == s

\* str.lower() on the spellings above
Lower(s) ==
    IF s \in {"MQTT", "Mqtt"} THEN "mqtt"
    ELSE IF s = "Device" THEN "device"
    ELSE s

\* create_client that looks at the polling credentials first
CreateClientRestFirst(cfg) ==
    LET has_rest_creds == Given(cfg.access_key) /\ Given(cfg.secret_key)
        has_user_creds == Given(cfg.account_user) /\ Given(cfg.account_password)
        api_type == Lower(IF cfg.api_type = "unset" THEN "mqtt" ELSE cfg.api_type)
        Raise(e) == [raised |-> e, value |-> "none"]
        Return(v) == [raised |-> "none", value |-> v]
    IN  IF has_rest_creds THEN Return("RestApiClient")
        ELSE IF has_rest_creds /\ has_user_creds THEN Raise("CredentialsConflictError")
        ELSE IF has_user_creds
        THEN (IF ~Given(cfg.device_sn) THEN Raise("ValueError: device_sn")
              ELSE IF api_type = "mqtt" THEN Return("MqttApiClient")
              ELSE IF api_type = "device" THEN Return("DeviceApiClient")
              ELSE Raise("ValueError: api_type"))
        ELSE Raise("ValueError: credentials")

\* create_client(device_sn)
CreateClient(cfg) ==
    LET has_rest_creds == Given(cfg.access_key) /\ Given(cfg.secret_key)
        has_user_creds == Given(cfg.account_user) /\ Given(cfg.account_password)
        api_type == Lower(IF cfg.api_type = "unset" THEN "mqtt" ELSE cfg.api_type)
        Raise(e) == [raised |-> e, value |-> "none"]
        Return(v) == [raised |-> "none", value |-> v]
    IN  IF has_rest_creds /\ has_user_creds THEN Raise("CredentialsConflictError")
        ELSE IF has_rest_creds THEN Return("RestApiClient")
        ELSE IF has_user_creds
        THEN (IF ~Given(cfg.device_sn) THEN Raise("ValueError: device_sn")
              ELSE IF api_type = "mqtt" THEN Return("MqttApiClient")
              ELSE IF api_type = "device" THEN Return("DeviceApiClient")
              ELSE Raise("ValueError: api_type"))
        ELSE Raise("ValueError: credentials")

\* create_client(device_sn) is called
CallCreateClient ==
    /\ call.fn = "create_client"
    /\ ~ret.done
    /\ ret' = [done |-> TRUE, raised |-> CreateClient(call.arg).raised,
               value |-> CreateClient(call.arg).value]
    /\ UNCHANGED <<envVars, now, cacheVars, readVars, objVars, loops, eventVars,
                    last_message_time, gauge, reconnect_delay, timerVars, idle_pc,
                    threadVars, published, cbVars, msg_errors, main_pc, workerVars,
                    metricVars, call, boot, rest, failures, ana>>

\* ------------------------------------------------------------------ calls
InitCalls ==
    /\ backend = "mqtt"
    /\ horizon = TimeStep
    /\ attempts = 0
    /\ maxclients = 0
    /\ errors_cap = 0
    /\ BackendInit
    /\ WorkerInit
    /\ MetricInit
    /\ call \in {[fn |-> "decode", arg |-> c] : c \in Containers}
            \cup {[fn |-> "xor_decode", arg |-> x] : x \in XorCalls}
            \cup {[fn |-> "create_client", arg |-> cfg] : cfg \in Configs}
            \cup {[fn |-> "update_metrics", arg |-> s] : s \in StatisticsMaps}
            \cup {[fn |-> "authorize", arg |-> a] : a \in AuthCalls}
    /\ ret = [done |-> FALSE]
    /\ boot = [pc |-> "off"]
    /\ rest = [pc |-> "off"]
    /\ ana = [pc |-> "off"]

NextCalls ==
    \/ CallDecode
    \/ CallXorDecode
    \/ CallCreateClient
    \/ CallUpdateMetrics
    \/ CallAuthorize

SpecCalls == InitCalls /\ [][NextCalls]_vars

\* ================================================================ startup
\* main() of src/ecoflow_prometheus.py: the loop that fetches the device
\* list before the Worker is created. boot.calls counts the calls of
\* client.get_device_list(), boot.wake is the end of time.sleep(RETRY_TIMEOUT).

\* what one client.get_device_list() call gives: the "data" of a response
\* whose message is "success" (null, an empty list, a list without or with
\* the configured serial), EcoflowClientException for another message, or an
\* exception of requests / response.json() that main() does not catch.
DeviceLists == {"None", "empty", "others", "mine"}

ListResults == DeviceLists \cup {"EcoflowClientException", "ConnectionError"}

\* `not devices`
NotDevices(devices) == devices \in {"None", "empty"}

BootInit == [pc |-> "loop", attempt |-> 0, devices |-> "None", calls |-> 0, wake |-> 0]

\* `while not devices and attempt < ESTABLISH_ATTEMPTS`
LoopGuard(b) == NotDevices(b.devices) /\ b.attempt < ESTABLISH_ATTEMPTS

\* one pass of the loop body up to the sleep
BootCall(r) ==
    /\ boot.pc = "loop"
    /\ LoopGuard(boot)
    /\ boot.calls < MaxCalls
    /\ boot' =
         IF r \in DeviceLists
         THEN [boot EXCEPT !.devices = r, !.calls = @ + 1]
         ELSE IF r = "ConnectionError"
         THEN [boot EXCEPT !.pc = "traceback", !.calls = @ + 1]
         ELSE IF boot.attempt + 1 >= ESTABLISH_ATTEMPTS
         THEN [boot EXCEPT !.pc = "exit1", !.attempt = @ + 1, !.calls = @ + 1]
         ELSE [boot EXCEPT !.pc = "sleep", !.attempt = @ + 1, !.calls = @ + 1,
                           !.wake = now + STARTUP_RETRY_TIMEOUT]
    /\ UNCHANGED <<envVars, now, cacheVars, readVars, objVars, loops, eventVars,
                    last_message_time, gauge, reconnect_delay, timerVars, idle_pc,
                    threadVars, published, cbVars, msg_errors, main_pc, workerVars,
                    metricVars, call, ret, rest, failures, ana>>

\* time.sleep(RETRY_TIMEOUT) returns
BootWake ==
    /\ boot.pc = "sleep"
    /\ now >= boot.wake
    /\ boot' = [boot EXCEPT !.pc = "loop"]
    /\ UNCHANGED <<envVars, now, cacheVars, readVars, objVars, loops, eventVars,
                    last_message_time, gauge, reconnect_delay, timerVars, idle_pc,
                    threadVars, published, cbVars, msg_errors, main_pc, workerVars,
                    metricVars, call, ret, rest, failures, ana>>

\* the loop is left: filter_device(devices, device_sn), then the Worker or exit(1)
BootFilter ==
    /\ boot.pc = "loop"
    /\ ~LoopGuard(boot)
    /\ boot' = [boot EXCEPT !.pc = IF boot.devices = "mine" THEN "worker" ELSE "exit1"]
    /\ UNCHANGED <<envVars, now, cacheVars, readVars, objVars, loops, eventVars,
                    last_message_time, gauge, reconnect_delay, timerVars, idle_pc,
                    threadVars, published, cbVars, msg_errors, main_pc, workerVars,
                    metricVars, call, ret, rest, failures, ana>>

InitBoot ==
    /\ backend = "mqtt"
    /\ horizon = BootMaxTime
    /\ attempts = 0
    /\ maxclients = 0
    /\ errors_cap = 0
    /\ BackendInit
    /\ WorkerInit
    /\ MetricInit
    /\ call = [fn |-> "none"]
    /\ ret = [done |-> FALSE]
    /\ boot = BootInit
    /\ rest = [pc |-> "off"]
    /\ ana = [pc |-> "off"]

NextBoot == Tick \/ (\E r \in ListResults : BootCall(r)) \/ BootWake \/ BootFilter

SpecBoot == InitBoot /\ [][NextBoot]_vars

\* ============================================================ REST backend
\* The device list cache of RestApiClient. rest.cached tells whether
\* _devices_cache is a list (None otherwise), rest.fetches counts the
\* device-list requests sent, rest.hits and rest.misses are the two children
\* of cache_operations_total, rest.calls counts the get_device calls and
\* rest.last is how the last of them was served.

RestInit ==
    [pc |-> "created", cached |-> FALSE, cache_time |-> None, fetches |-> 0,
     hits |-> 0, misses |-> 0, calls |-> 0, last |-> "none"]

\* _is_cache_expired with an inclusive comparison
IsCacheExpiredInclusive(r) ==
    IF ~r.cached \/ r.cache_time = None THEN TRUE
    ELSE now - r.cache_time >= DEVICE_LIST_CACHE_TTL

\* RestApiClient._is_cache_expired
IsCacheExpired(r) ==
    IF ~r.cached \/ r.cache_time = None THEN TRUE
    ELSE now - r.cache_time > DEVICE_LIST_CACHE_TTL

\* RestApiClient.get_devices on r: the request is sent; the cache and its
\* time are set when it succeeds and left alone when _execute_request raises
GetDevices(r, ok) ==
    IF ok THEN [r EXCEPT !.fetches = @ + 1, !.cached = TRUE, !.cache_time = now]
    ELSE [r EXCEPT !.fetches = @ + 1]

\* RestApiClient.connect
RestConnect(ok) ==
    /\ rest.pc \in {"created", "connected"}
    /\ rest.fetches < MaxFetches
    /\ rest' = GetDevices([rest EXCEPT !.pc = "connected", !.cached = FALSE,
                                       !.cache_time = None], ok)
    /\ UNCHANGED <<envVars, now, cacheVars, readVars, objVars, loops, eventVars,
                    last_message_time, gauge, reconnect_delay, timerVars, idle_pc,
                    threadVars, published, cbVars, msg_errors, main_pc, workerVars,
                    metricVars, call, ret, boot, failures, ana>>

\* a direct RestApiClient.get_devices call
RestGetDevices(ok) ==
    /\ rest.pc = "connected"
    /\ rest.fetches < MaxFetches
    /\ rest' = GetDevices(rest, ok)
    /\ UNCHANGED <<envVars, now, cacheVars, readVars, objVars, loops, eventVars,
                    last_message_time, gauge, reconnect_delay, timerVars, idle_pc,
                    threadVars, published, cbVars, msg_errors, main_pc, workerVars,
                    metricVars, call, ret, boot, failures, ana>>

\* RestApiClient.get_device(sn)
RestGetDevice(ok) ==
    /\ rest.pc = "connected"
    /\ rest.calls < MaxLookups
    /\ rest.fetches < MaxFetches
    /\ rest' =
         IF IsCacheExpired(rest)
         THEN GetDevices([rest EXCEPT !.misses = @ + 1, !.calls = @ + 1,
                                      !.last = "miss"], ok)
         ELSE [rest EXCEPT !.hits = @ + 1, !.calls = @ + 1, !.last = "hit"]
    /\ UNCHANGED <<envVars, now, cacheVars, readVars, objVars, loops, eventVars,
                    last_message_time, gauge, reconnect_delay, timerVars, idle_pc,
                    threadVars, published, cbVars, msg_errors, main_pc, workerVars,
                    metricVars, call, ret, boot, failures, ana>>

InitRest ==
    /\ backend = "mqtt"
    /\ horizon = RestMaxTime
    /\ attempts = 0
    /\ maxclients = 0
    /\ errors_cap = 0
    /\ BackendInit
    /\ WorkerInit
    /\ MetricInit
    /\ call = [fn |-> "none"]
    /\ ret = [done |-> FALSE]
    /\ boot = [pc |-> "off"]
    /\ rest = RestInit
    /\ ana = [pc |-> "off"]

NextRest ==
    \/ Tick
    \/ \E ok \in BOOLEAN : RestConnect(ok)
    \/ \E ok \in BOOLEAN : RestGetDevices(ok)
    \/ \E ok \in BOOLEAN : RestGetDevice(ok)

SpecRest == InitRest /\ [][NextRest]_vars

\* ====================================================== analytics singleton
\* metrics/analytics.py: AnalyticsMetrics.__new__, get_analytics and
\* reset_analytics run by several threads. ana.instance is
\* AnalyticsMetrics._instance and ana.analytics the module's _analytics (0 for
\* None, otherwise the number of the object), ana.class_lock and
\* ana.module_lock name the thread that holds AnalyticsMetrics._lock and
\* _analytics_lock (0: free), ana.registered is the object whose metrics are
\* in the Prometheus REGISTRY (0: none), ana.created counts the objects made,
\* ana.started and ana.finished count the reset_analytics calls, ana.th[t]
\* is thread t (its position and the call it runs), and ana.returned holds
\* what the AnalyticsMetrics() and get_analytics() calls returned that ran
\* with no reset under way: the number of resets before the call, "instance",
\* "None" or "raised", and the object.
AnaThreads == 1..MaxAnaThreads

AnaInit ==
    [instance |-> 0, analytics |-> 0, class_lock |-> 0, module_lock |-> 0,
     registered |-> 0, created |-> 0, started |-> 0, finished |-> 0, returned |-> {},
     th |-> [t \in AnaThreads |->
               [pc |-> "idle", op |-> "none", local |-> 0, calls |-> 0,
                epoch |-> 0, clean |-> FALSE]]]

\* thread t moves to pc, with the other fields of its record as given
AnaGoto(t, pc) == [ana EXCEPT !.th[t].pc = pc]

\* the call of thread t returns: kind is "instance", "None" or "raised"
AnaReturn(a, t, kind, id) ==
    [a EXCEPT !.th[t].pc = "idle",
              !.returned =
                  IF /\ a.th[t].op \in {"new", "get"}
                     /\ a.th[t].clean
                     /\ a.started = a.th[t].epoch
                  THEN @ \cup {<<a.th[t].epoch, kind, id>>}
                  ELSE @]

\* thread t calls AnalyticsMetrics(), get_analytics() or reset_analytics()
AnaCall(t, op) ==
    /\ ana.th[t].pc = "idle"
    /\ ana.th[t].calls < MaxAnaCalls
    /\ ana' = [ana EXCEPT
                 !.th[t].pc = IF op = "new" THEN "n_check" ELSE IF op = "get" THEN "g_check"
                              ELSE "r_module",
                 !.th[t].op = op,
                 !.th[t].calls = @ + 1,
                 !.th[t].epoch = IF op = "reset" THEN ana.started + 1 ELSE ana.started,
                 !.th[t].clean = (ana.started = ana.finished),
                 !.started = IF op = "reset" THEN @ + 1 ELSE @]
    /\ UNCHANGED <<envVars, now, cacheVars, readVars, objVars, loops, eventVars,
                    last_message_time, gauge, reconnect_delay, timerVars, idle_pc,
                    threadVars, published, cbVars, msg_errors, main_pc, workerVars,
                    metricVars, auxVars, failures>>

\* __new__: the first `if cls._instance is None`
NewCheck(t) ==
    /\ ana.th[t].pc = "n_check"
    /\ ana' = AnaGoto(t, IF ana.instance = 0 THEN "n_lock" ELSE "n_return")
    /\ UNCHANGED <<envVars, now, cacheVars, readVars, objVars, loops, eventVars,
                    last_message_time, gauge, reconnect_delay, timerVars, idle_pc,
                    threadVars, published, cbVars, msg_errors, main_pc, workerVars,
                    metricVars, auxVars, failures>>

\* __new__: `with cls._lock` is entered
NewLock(t) ==
    /\ ana.th[t].pc = "n_lock"
    /\ ana.class_lock = 0
    /\ ana' = [AnaGoto(t, "n_locked") EXCEPT !.class_lock = t]
    /\ UNCHANGED <<envVars, now, cacheVars, readVars, objVars, loops, eventVars,
                    last_message_time, gauge, reconnect_delay, timerVars, idle_pc,
                    threadVars, published, cbVars, msg_errors, main_pc, workerVars,
                    metricVars, auxVars, failures>>

\* __new__: the second check; when the instance is still None the object is
\* created, _init_metrics registers its metrics and the class variable is
\* assigned, unless the registry has the metric names already and the first
\* Histogram(...) raises ValueError; the lock is released either way
NewLocked(t) ==
    /\ ana.th[t].pc = "n_locked"
    /\ ana' =
         IF ana.instance # 0
         THEN [AnaGoto(t, "n_return") EXCEPT !.class_lock = 0]
         ELSE IF ana.registered # 0
         THEN [AnaReturn(ana, t, "raised", 0) EXCEPT
                 !.class_lock = 0,
                 !.module_lock = IF ana.th[t].op = "get" THEN 0 ELSE @]
         ELSE [AnaGoto(t, "n_return") EXCEPT
                 !.class_lock = 0,
                 !.created = @ + 1,
                 !.registered = ana.created + 1,
                 !.instance = ana.created + 1]
    /\ UNCHANGED <<envVars, now, cacheVars, readVars, objVars, loops, eventVars,
                    last_message_time, gauge, reconnect_delay, timerVars, idle_pc,
                    threadVars, published, cbVars, msg_errors, main_pc, workerVars,
                    metricVars, auxVars, failures>>

\* __new__: `return cls._instance`, to the caller or to get_analytics
NewReturn(t) ==
    /\ ana.th[t].pc = "n_return"
    /\ ana' =
         IF ana.th[t].op = "get"
         THEN [AnaGoto(t, "g_assign") EXCEPT !.th[t].local = ana.instance]
         ELSE AnaReturn(ana, t, IF ana.instance = 0 THEN "None" ELSE "instance",
                        ana.instance)
    /\ UNCHANGED <<envVars, now, cacheVars, readVars, objVars, loops, eventVars,
                    last_message_time, gauge, reconnect_delay, timerVars, idle_pc,
                    threadVars, published, cbVars, msg_errors, main_pc, workerVars,
                    metricVars, auxVars, failures>>

\* get_analytics: the first `if _analytics is None`
GetCheck(t) ==
    /\ ana.th[t].pc = "g_check"
    /\ ana' = AnaGoto(t, IF ana.analytics = 0 THEN "g_lock" ELSE "g_return")
    /\ UNCHANGED <<envVars, now, cacheVars, readVars, objVars, loops, eventVars,
                    last_message_time, gauge, reconnect_delay, timerVars, idle_pc,
                    threadVars, published, cbVars, msg_errors, main_pc, workerVars,
                    metricVars, auxVars, failures>>

\* get_analytics: `with _analytics_lock` is entered
GetLock(t) ==
    /\ ana.th[t].pc = "g_lock"
    /\ ana.module_lock = 0
    /\ ana' = [AnaGoto(t, "g_locked") EXCEPT !.module_lock = t]
    /\ UNCHANGED <<envVars, now, cacheVars, readVars, objVars, loops, eventVars,
                    last_message_time, gauge, reconnect_delay, timerVars, idle_pc,
                    threadVars, published, cbVars, msg_errors, main_pc, workerVars,
                    metricVars, auxVars, failures>>

\* get_analytics: the second check; AnalyticsMetrics() is called when
\* _analytics is still None
GetLocked(t) ==
    /\ ana.th[t].pc = "g_locked"
    /\ ana' = IF ana.analytics = 0 THEN AnaGoto(t, "n_check")
              ELSE [AnaGoto(t, "g_return") EXCEPT !.module_lock = 0]
    /\ UNCHANGED <<envVars, now, cacheVars, readVars, objVars, loops, eventVars,
                    last_message_time, gauge, reconnect_delay, timerVars, idle_pc,
                    threadVars, published, cbVars, msg_errors, main_pc, workerVars,
                    metricVars, auxVars, failures>>

\* get_analytics: `_analytics = AnalyticsMetrics()` and the lock is released
GetAssign(t) ==
    /\ ana.th[t].pc = "g_assign"
    /\ ana' = [AnaGoto(t, "g_return") EXCEPT
                 !.analytics = ana.th[t].local, !.module_lock = 0]
    /\ UNCHANGED <<envVars, now, cacheVars, readVars, objVars, loops, eventVars,
                    last_message_time, gauge, reconnect_delay, timerVars, idle_pc,
                    threadVars, published, cbVars, msg_errors, main_pc, workerVars,
                    metricVars, auxVars, failures>>

\* get_analytics: `return _analytics`
GetReturn(t) ==
    /\ ana.th[t].pc = "g_return"
    /\ ana' = AnaReturn(ana, t, IF ana.analytics = 0 THEN "None" ELSE "instance",
                        ana.analytics)
    /\ UNCHANGED <<envVars, now, cacheVars, readVars, objVars, loops, eventVars,
                    last_message_time, gauge, reconnect_delay, timerVars, idle_pc,
                    threadVars, published, cbVars, msg_errors, main_pc, workerVars,
                    metricVars, auxVars, failures>>

\* reset_analytics: `with _analytics_lock` is entered
ResetModuleLock(t) ==
    /\ ana.th[t].pc = "r_module"
    /\ ana.module_lock = 0
    /\ ana' = [AnaGoto(t, "r_class") EXCEPT !.module_lock = t]
    /\ UNCHANGED <<envVars, now, cacheVars, readVars, objVars, loops, eventVars,
                    last_message_time, gauge, reconnect_delay, timerVars, idle_pc,
                    threadVars, published, cbVars, msg_errors, main_pc, workerVars,
                    metricVars, auxVars, failures>>

\* reset_analytics: `with AnalyticsMetrics._lock` is entered
ResetClassLock(t) ==
    /\ ana.th[t].pc = "r_class"
    /\ ana.class_lock = 0
    /\ ana' = [AnaGoto(t, "r_body") EXCEPT !.class_lock = t]
    /\ UNCHANGED <<envVars, now, cacheVars, readVars, objVars, loops, eventVars,
                    last_message_time, gauge, reconnect_delay, timerVars, idle_pc,
                    threadVars, published, cbVars, msg_errors, main_pc, workerVars,
                    metricVars, auxVars, failures>>

\* reset_analytics: the metrics of _analytics are unregistered if it is not
\* None, both references are set to None and both locks are released
ResetBody(t) ==
    /\ ana.th[t].pc = "r_body"
    /\ ana' = [AnaReturn(ana, t, "None", 0) EXCEPT
                 !.registered = IF ana.analytics # 0 THEN 0 ELSE @,
                 !.analytics = 0,
                 !.instance = 0,
                 !.class_lock = 0,
                 !.module_lock = 0,
                 !.finished = @ + 1]
    /\ UNCHANGED <<envVars, now, cacheVars, readVars, objVars, loops, eventVars,
                    last_message_time, gauge, reconnect_delay, timerVars, idle_pc,
                    threadVars, published, cbVars, msg_errors, main_pc, workerVars,
                    metricVars, auxVars, failures>>

InitAnalytics ==
    /\ backend = "mqtt"
    /\ horizon = TimeStep
    /\ attempts = 0
    /\ maxclients = 0
    /\ errors_cap = 0
    /\ BackendInit
    /\ WorkerInit
    /\ MetricInit
    /\ call = [fn |-> "none"]
    /\ ret = [done |-> FALSE]
    /\ boot = [pc |-> "off"]
    /\ rest = [pc |-> "off"]
    /\ ana = AnaInit

NextAnalytics ==
    \E t \in AnaThreads :
        \/ \E op \in {"new", "get", "reset"} : AnaCall(t, op)
        \/ NewCheck(t) \/ NewLock(t) \/ NewLocked(t) \/ NewReturn(t)
        \/ GetCheck(t) \/ GetLock(t) \/ GetLocked(t) \/ GetAssign(t) \/ GetReturn(t)
        \/ ResetModuleLock(t) \/ ResetClassLock(t) \/ ResetBody(t)

SpecAnalytics == InitAnalytics /\ [][NextAnalytics]_vars

\* =========================================================================
\* Properties
\* =========================================================================

\* C1: a cache read returns, for every key some applied message carried, the
\* value of the most recent applied message that carried it, whatever other
\* keys later messages overwrote.
C1_ReadReturnsLatest ==
    [][GetDeviceQuota =>
        \A k \in DOMAIN observed :
            k \in DOMAIN snapshot' /\ snapshot'[k] = observed[k]]_vars

\* a read returned both keys, as last applied, while the next message, which
\* overwrites one of them, waits for the lock
C1_Witness ==
    /\ DOMAIN snapshot = Keys
    /\ snapshot = observed
    /\ \E c \in ClientIds :
        /\ cb_pc[c] = "lock"
        /\ DOMAIN cb_msg[c].params = {"soc"}
        /\ cb_msg[c].params["soc"] # snapshot["soc"]

\* C2: at most one reconnect attempt is in flight at any time: no second
\* reconnect thread is started while an earlier one, abandoned or not, still
\* runs.
C2_OneReconnectInFlight ==
    Cardinality({t \in ThreadIds : Alive(t)}) <= 1

\* C3: after disconnect() the backend is TERMINATED for good: no broker
\* client is created any more and the connected flag is never set again.
C3_TerminatedIsFinal ==
    [][main_pc = "terminated" =>
        /\ nclients' = nclients
        /\ connected' => connected]_vars

\* C4: when disconnect() returns, the MQTT connection gauge reads 0.
C4_GaugeZeroAfterDisconnect ==
    [][main_pc # "terminated" /\ main_pc' = "terminated" => gauge' = 0]_vars

\* C5: a reconnect attempt that ends with the broker accepting the connection
\* leaves the reconnect delay at the base interval: that attempt does not
\* double the delay. Stated for the first attempt after connect(): its
\* thread has finished inside the join, the client it created is in its
\* first session, accepted by the broker, and _reconnect has returned.
C5_AcceptedAttemptResetsDelay ==
    (/\ main_pc = "live"
     /\ idle_pc = "wait"
     /\ last_attempt \in {"success", "failed"}
     /\ nclients = 2
     /\ client = 2
     /\ loops[2] = "up"
     /\ \A t \in ThreadIds : threads[t] \in {"none", "done"})
    => reconnect_delay = IDLE_CHECK_INTERVAL

\* C6: a reconnect call that hangs in the library does not wedge idle
\* supervision: the idle timer thread itself is never stuck in the call.
C6_HungCallDoesNotWedgeIdleTimer ==
    idle_pc # "hung"

\* C7 (as stated): get_device reports online exactly when the connected flag
\* is set and the last cache update is less than MQTT_TIMEOUT old.
C7_OnlineIffConnectedAndFresh ==
    [][GetDevice \/ DevGetDevice =>
        ((info_online' = "online") <=>
            /\ connected
            /\ backend = "mqtt" => mqtt
            /\ last_update # None
            /\ now - last_update < MQTT_TIMEOUT)]_vars

\* C7 (amended): get_device reports online exactly when the connected flag is
\* set and the cache either was never updated or was last updated less than
\* MQTT_TIMEOUT ago.
C7_OnlineIffConnectedAndNotStale ==
    [][GetDevice \/ DevGetDevice =>
        ((info_online' = "online") <=>
            /\ connected
            /\ backend = "mqtt" => mqtt
            /\ \/ last_update = None
               \/ now - last_update < MQTT_TIMEOUT)]_vars

\* get_device reported online before any message had updated the cache
C7_Witness ==
    /\ info_online = "online"
    /\ last_update = None


\* C8: a quota timer tick publishes a quota request only if no push message,
\* JSON or binary, was applied within the previous QUOTA_REQUEST_INTERVAL;
\* when the last push is older than that and the client is connected, the
\* tick publishes exactly one request.
C8_QuotaTickOnlyWithoutRecentPush ==
    [][QuotaTick =>
        LET recent == /\ last_push_arrival # None
                      /\ now - last_push_arrival < QUOTA_REQUEST_INTERVAL
        IN  /\ published' # published => ~recent
            /\ (~recent /\ connected /\ client # 0) => published' = published + 1
            /\ published' \in {published, published + 1}]_vars

\* C9: no exception escapes the loop of Worker.run: every iteration reaches
\* its sleep, and by then it has accounted exactly one scrape status, so the
\* scrape counter has grown by one per iteration.
C9_OneStatusPerIteration ==
    /\ w_pc \in {"collect", "sleep"}
    /\ w_pc = "sleep" =>
        /\ Len(w_status) = 1
        /\ w_status[1] \in Statuses
        /\ w_sleep \in {COLLECTING_INTERVAL, RETRY_TIMEOUT}
    /\ w_scrapes["success"] + w_scrapes["offline"] + w_scrapes["not_found"]
           + w_scrapes["error"] = w_iter

\* an iteration that raised sleeps, after an earlier one that succeeded
C9_Witness ==
    /\ w_pc = "sleep"
    /\ w_status = <<"error">>
    /\ w_scrapes["success"] >= 1
    /\ w_scrapes["error"] >= 1

\* C10: the sleep after an iteration is the collecting interval after a
\* success or offline scrape, and the retry timeout after a not_found scrape
\* or an exception.
C10_SleepChosenByOutcome ==
    (w_pc = "sleep" /\ Len(w_status) = 1) =>
        w_sleep = IF w_status[1] \in {"success", "offline"}
                  THEN COLLECTING_INTERVAL ELSE RETRY_TIMEOUT

\* C11: an iteration that finds the device offline, or that meets an
\* exception, leaves the online gauge at 0 and the registered device metrics
\* cleared; an iteration that finds the device offline or absent does not
\* call get_device_quota.
C11_OfflineAndErrorResetMetrics ==
    (w_pc = "sleep" /\ Len(w_status) = 1) =>
        /\ w_status[1] \in {"offline", "error"} =>
            /\ w_online = 0
            /\ w_metrics \in {"none", "cleared"}
        /\ w_status[1] \in {"offline", "not_found"} => ~w_fetched

\* after an iteration that set device metrics, the device is found offline
C11_Witness ==
    /\ w_pc = "sleep"
    /\ w_status = <<"offline">>
    /\ w_scrapes["success"] >= 1
    /\ w_metrics = "cleared"
    /\ w_online = 0

\* C12: a shape name is registered at most once: a key whose shape name
\* (indices stripped, dots folded to underscores, snake-cased) is already
\* registered gets the existing handle, and creating its metric attempts no
\* new registration.
C12_ShapeRegisteredOnce ==
    [][\A key \in MetricKeys :
          (NewMetric(key) /\ ShapeName(key) \in m_registry) =>
              (m_last'.reused /\ ~m_last'.attempted)]_vars

\* C13: the map get_device_quota returns is isolated: whatever the caller
\* assigns in it, at the top level or inside a nested map reachable from it,
\* what a later get_device_quota returns does not change.
C13_SnapshotIsIsolated ==
    [][(\E k \in Keys, v \in Vals : CallerSetsKey(k, v) \/ CallerSetsNested(k, v))
          => ReadValue' = ReadValue]_vars

\* C14: with several message callbacks applying updates concurrently, a read
\* returns a map whose key set is the union of the keys of the messages
\* applied so far, and it never runs while a message is half applied: of
\* each message it sees all keys or none.
C14_ReadersSeeWholeMessages ==
    [][GetDeviceQuota =>
        /\ DOMAIN snapshot' = DOMAIN observed
        /\ \A c \in ClientIds : cb_pc[c] # "update"]_vars

\* a read returned the union of the applied keys while the loop threads of
\* two clients each wait for the lock with a further message
C14_Witness ==
    /\ DOMAIN snapshot = Keys
    /\ DOMAIN observed = Keys
    /\ \E c \in orphans : cb_pc[c] = "lock"
    /\ \E c \in ClientIds \ orphans : cb_pc[c] = "lock"

\* C15: the cache never shrinks. No step (ingestion, an offline reply, a
\* malformed message, a reconnect) removes a key, and the value of a key
\* changes only while a message that carries the key is being applied: a
\* message lacking a key leaves that key's value as it was.
C15_CacheNeverShrinks ==
    [][\A k \in DOMAIN quota_cache :
          /\ k \in DOMAIN quota_cache'
          /\ quota_cache'[k] # quota_cache[k] =>
                \E c \in ClientIds : cb_pc[c] = "update" /\ k \in DOMAIN cb_msg[c].params]_vars

\* after a reconnect the new client has applied a message without "soc" and
\* the cache still holds the "soc" an earlier message brought
C15_Witness ==
    /\ orphans # {}
    /\ "soc" \in DOMAIN quota_cache
    /\ cb_pc[client] = "update"
    /\ cb_todo[client] = {}
    /\ DOMAIN cb_msg[client].params = {"wattsIn"}

\* C16: the reconnect delay never exceeds MAX_RECONNECT_DELAY, in every
\* reachable state of either backend.
C16_DelayStaysUnderCap == reconnect_delay <= MAX_RECONNECT_DELAY

\* four reconnect attempts in a row have failed: the delay was doubled from
\* 240 and stands at the cap
C16_Witness ==
    /\ reconnect_delay = MAX_RECONNECT_DELAY
    /\ backend = "device"
    /\ nclients = BackoffClients


\* C17: an idle tick initiates a reconnect if and only if a last-message
\* timestamp exists and the current time minus it exceeds MQTT_TIMEOUT. A
\* step that initiates a reconnect is taken only then and initiates exactly
\* one; where the timer can tick, the tick that returns at once is possible
\* exactly when the condition does not hold.
C17_TickReconnectsIffIdle ==
    [][LET exists == last_message_time # None /\ last_message_time # 0
                     /\ (backend = "mqtt" => mqtt)
           idle == exists /\ now - last_message_time > MQTT_TIMEOUT
           started == {t \in ThreadIds : threads[t] # "begin" /\ threads'[t] = "begin"}
           begins == idle_pc = "wait" /\ idle_pc' = "begin"
           quiet == ENABLED (IF backend = "mqtt" THEN IdleTickQuiet ELSE DevIdleTickQuiet)
       IN  /\ (started # {} \/ begins) =>
                 /\ idle
                 /\ idle_timer = "running" /\ idle_pc = "wait"
                 /\ backend = "mqtt" => Cardinality(started) = 1 /\ ~begins
                 /\ backend = "device" => started = {}
           /\ (idle_timer = "running" /\ idle_pc = "wait") => (quiet <=> ~idle)]_vars

\* a tick found the push session idle for more than MQTT_TIMEOUT and waits
\* for the one reconnect thread it started
C17_Witness ==
    /\ idle_pc = "join"
    /\ joined # 0
    /\ threads[joined] = "begin"
    /\ Cardinality({t \in ThreadIds : threads[t] = "begin"}) = 1
    /\ now - last_message_time > MQTT_TIMEOUT

\* C18: connect() raises EcoflowApiException when the connected event is not
\* set at the end of its wait; when it is set connect() succeeds, whether or
\* not the subscribed event was ever set, and leaves the reconnect delay at
\* IDLE_CHECK_INTERVAL.
C18_ConnectDecidedByConnectedEvent ==
    [][(main_pc = "m_wait" /\ main_pc' # "m_wait") =>
         IF connected
         THEN main_pc' = "live" /\ reconnect_delay' = IDLE_CHECK_INTERVAL
         ELSE main_pc' = "failed"]_vars

\* connect() has returned on a session whose subscription was never
\* confirmed
C18_Witness ==
    /\ main_pc = "live"
    /\ nclients = 1
    /\ loops[1] = "up"
    /\ connected
    /\ ~subscribed
    /\ idle_timer = "running"
    /\ reconnect_delay = IDLE_CHECK_INTERVAL

\* C19: a reply on the get_reply topic is merged into the cache only when its
\* operateType is latestQuotas and data.online is 1: then the handler goes on
\* to merge data.quotaMap. With online 0, another operateType or invalid
\* JSON the handler returns and the cache and its last-update time stay as
\* they are; whatever changes them is a handler applying an accepted message.
C19_OnlyOnlineRepliesMerge ==
    [][/\ \A c \in ClientIds, m \in ReplyMsgs \cup BadReplyMsgs :
              DevOnMessage(c, m) =>
                 IF m.kind = "reply" /\ m.online = 1
                 THEN cb_pc'[c] = "lock" /\ cb_msg'[c] = [kind |-> "reply", params |-> m.params]
                 ELSE /\ cb_pc'[c] = "idle"
                      /\ quota_cache' = quota_cache
                      /\ last_update' = last_update
       /\ (backend = "device" /\ (quota_cache' # quota_cache \/ last_update' # last_update)) =>
              \E c \in ClientIds :
                 cb_pc[c] = "update" /\ cb_msg[c].kind \in {"json", "binary", "reply"}]_vars

\* the quotaMap of an online reply has been merged into the cache
C19_Witness ==
    /\ backend = "device"
    /\ \E c \in ClientIds :
          /\ cb_pc[c] = "update"
          /\ cb_msg[c].kind = "reply"
          /\ cb_todo[c] = {}
          /\ DOMAIN cb_msg[c].params = Keys
          /\ \A k \in Keys : quota_cache[k] = cb_msg[c].params[k]

\* C20: a message whose payload fails JSON or binary decoding is swallowed by
\* the handlers. Nothing reaches the network loop (the session stays up and
\* the callback has returned), the cache and its last-update time are as
\* before, and the session goes on taking messages: where an error has been
\* recorded and the callback is idle, a valid message can be delivered.
C20_MalformedMessageIsSwallowed ==
    [][LET deliver(c, m) == IF backend = "mqtt" THEN OnMessage(c, m) ELSE DevOnMessage(c, m)
           valid == [kind |-> "json", online |-> 0, params |-> SomeParams]
       IN  /\ \A c \in ClientIds, m \in BadMsgs \cup BadReplyMsgs \cup BinaryMsgs :
                  (Malformed(m) /\ deliver(c, m)) =>
                     /\ loops' = loops
                     /\ cb_pc'[c] = "idle"
                     /\ quota_cache' = quota_cache
                     /\ last_update' = last_update
           /\ \A c \in ClientIds :
                  (msg_errors > 0 /\ SessionUp(c) /\ cb_pc[c] = "idle") =>
                     ENABLED deliver(c, valid)]_vars

\* the handlers recorded an error for a malformed message and the same
\* session has since taken a valid message into the cache
C20_Witness ==
    /\ msg_errors > 0
    /\ nclients = 1
    /\ SessionUp(1)
    /\ cb_pc[1] = "update"
    /\ cb_todo[1] = {}
    /\ cb_msg[1].params # Empty
    /\ \A k \in DOMAIN cb_msg[1].params : quota_cache[k] = cb_msg[1].params[k]

\* C21 (as stated): ProtobufDecoder.decode never raises, and whenever a parse
\* step fails, the container parse or the inner payload parse of any header,
\* it returns an empty map.
C21_AnyParseFailureGivesEmptyMap ==
    (call.fn = "decode" /\ ret.done) =>
        /\ ~ret.raised
        /\ (~call.arg.parses
            \/ \E i \in DOMAIN call.arg.msg :
                  Handled(call.arg.msg[i]) /\ ~InnerParses(call.arg.msg[i]))
              => ret.value = Empty

\* C21 (amended): decode never raises; it returns an empty map when the
\* container parse fails; a header whose inner parse fails contributes
\* nothing, and the result holds exactly the fields of the handled headers
\* that parse, the later header winning on a shared key, so it is empty
\* when no header parses.
C21_FailedHeaderContributesNothing ==
    (call.fn = "decode" /\ ret.done) =>
        LET msg == call.arg.msg
            good == {i \in DOMAIN msg : Handled(msg[i]) /\ InnerParses(msg[i])}
        IN  /\ ~ret.raised
            /\ ~call.arg.parses => ret.value = Empty
            /\ DOMAIN ret.value = UNION {DOMAIN msg[i].pdata.fields : i \in good}
            /\ \A k \in DOMAIN ret.value :
                  \E i \in good :
                     /\ k \in DOMAIN msg[i].pdata.fields
                     /\ ret.value[k] = msg[i].pdata.fields[k]
                     /\ \A j \in good : k \in DOMAIN msg[j].pdata.fields => j <= i

\* a container whose first header fails its inner parse and whose second
\* header parses was decoded: the map holds the second header's fields
C21_Witness ==
    /\ call.fn = "decode"
    /\ ret.done
    /\ Len(call.arg.msg) = 2
    /\ Handled(call.arg.msg[1]) /\ ~InnerParses(call.arg.msg[1])
    /\ Handled(call.arg.msg[2]) /\ InnerParses(call.arg.msg[2])
    /\ ret.value = call.arg.msg[2].pdata.fields
    /\ ret.value # Empty

\* C22: startup makes at most ESTABLISH_ATTEMPTS attempts to fetch the device
\* list and then proceeds with a device or exits with failure, so the loop
\* always terminates: it never calls get_device_list more than
\* ESTABLISH_ATTEMPTS times.
C22_AtMostEstablishAttempts == boot.pc # "off" => boot.calls <= ESTABLISH_ATTEMPTS

\* C23: create_client raises CredentialsConflictError whenever both the
\* access/secret key pair and the user/password pair are completely
\* configured, whatever the serial and the API type, and constructs no client.
C23_BothPairsConflict ==
    (/\ call.fn = "create_client"
     /\ ret.done
     /\ \A f \in {"access_key", "secret_key", "account_user", "account_password"} :
           call.arg[f] \notin {"unset", ""})
        => ret.raised = "CredentialsConflictError" /\ ret.value = "none"

\* create_client was called with both pairs set, no serial and the API type
\* "device", and raised the conflict
C23_Witness ==
    /\ call.fn = "create_client"
    /\ ret.done
    /\ call.arg.access_key = "x" /\ call.arg.secret_key = "x"
    /\ call.arg.account_user = "x" /\ call.arg.account_password = "x"
    /\ call.arg.device_sn = "unset"
    /\ call.arg.api_type = "device"
    /\ ret.raised = "CredentialsConflictError"

\* C24: with only the user pair, create_client raises ValueError when no
\* serial is given, and otherwise returns the push backend for the type mqtt
\* (the default, in any case of letters), the request/reply backend for
\* device, and raises ValueError for any other type; with only the polling
\* pair it returns the REST backend whatever the serial; with neither pair it
\* raises the missing-credentials ValueError.
C24_BackendSelection ==
    (call.fn = "create_client" /\ ret.done) =>
        LET cfg == call.arg
            Set(f) == cfg[f] \notin {"unset", ""}
            polling == Set("access_key") /\ Set("secret_key")
            user == Set("account_user") /\ Set("account_password")
            IsMqtt == cfg.api_type \in {"unset", "mqtt", "MQTT", "Mqtt"}
            IsDevice == cfg.api_type \in {"device", "Device"}
            Returns(v) == ret.raised = "none" /\ ret.value = v
            Raises(e) == ret.raised = e /\ ret.value = "none"
        IN  /\ (user /\ ~polling /\ ~Set("device_sn")) => Raises("ValueError: device_sn")
            /\ (user /\ ~polling /\ Set("device_sn") /\ IsMqtt) => Returns("MqttApiClient")
            /\ (user /\ ~polling /\ Set("device_sn") /\ IsDevice)
                  => Returns("DeviceApiClient")
            /\ (user /\ ~polling /\ Set("device_sn") /\ ~IsMqtt /\ ~IsDevice)
                  => Raises("ValueError: api_type")
            /\ (polling /\ ~user) => Returns("RestApiClient")
            /\ (~polling /\ ~user) => Raises("ValueError: credentials")

\* create_client was called with the user pair, a serial and the type "MQTT",
\* and returned the push backend
C24_Witness ==
    /\ call.fn = "create_client"
    /\ ret.done
    /\ call.arg.access_key = "unset" /\ call.arg.secret_key = ""
    /\ call.arg.account_user = "x" /\ call.arg.account_password = "x"
    /\ call.arg.device_sn = "x"
    /\ call.arg.api_type = "MQTT"
    /\ ret.raised = "none"
    /\ ret.value = "MqttApiClient"

\* C26: _xor_decode is its own inverse: for every byte string p and every
\* seq in [0, 256), decoding the decoded bytes with the same seq gives p back,
\* and every byte of the output lies in [0, 255].
C26_XorDecodeIsInvolution ==
    (call.fn = "xor_decode" /\ ret.done) =>
        /\ Len(ret.value) = Len(call.arg.pdata)
        /\ \A i \in DOMAIN ret.value : ret.value[i] \in 0..255
        /\ XorDecode(ret.value, call.arg.seq) = call.arg.pdata

\* a two-byte string was decoded with a seq that has high and low bits set,
\* and every byte changed
C26_Witness ==
    /\ call.fn = "xor_decode"
    /\ ret.done
    /\ call.arg.seq = 165
    /\ call.arg.pdata = <<90, 255>>
    /\ ret.value = <<255, 90>>

\* C25: RestApiClient.get_device(sn) fetches the device list if and only if
\* the cache is absent or older than DEVICE_LIST_CACHE_TTL, and each call
\* counts exactly one cache operation: a hit when it is served from the cache,
\* a miss when a fetch is triggered.
C25_FetchIffCacheStale ==
    [][rest.pc = "connected" /\ rest'.calls = rest.calls + 1 =>
         LET stale == ~rest.cached \/ now - rest.cache_time > DEVICE_LIST_CACHE_TTL
             fetched == rest'.fetches - rest.fetches
         IN  /\ fetched = (IF stale THEN 1 ELSE 0)
             /\ rest'.misses = rest.misses + fetched
             /\ rest'.hits = rest.hits + (1 - fetched)
             /\ ~stale => rest'.cached /\ rest'.cache_time = rest.cache_time]_vars

\* a get_device call was served from a cache exactly DEVICE_LIST_CACHE_TTL
\* old, after an earlier call had missed
C25_Witness ==
    /\ rest.pc = "connected"
    /\ rest.last = "hit"
    /\ rest.misses > 0
    /\ rest.cached
    /\ now - rest.cache_time = DEVICE_LIST_CACHE_TTL

\* C27: after a failed reconnect attempt the next attempt is not started
\* until at least the current reconnect delay has elapsed. A failed attempt
\* stamps last_message_time with the time it failed and leaves the delay above
\* IDLE_CHECK_INTERVAL, so a step that starts an attempt with such a delay
\* finds at least that delay gone since the stamp.
C27_NextAttemptWaitsForDelay ==
    [][(/\ idle_pc = "wait"
        /\ idle_pc' \in {"join", "begin"}
        /\ failures > 0)
          => now - last_message_time >= reconnect_delay]_vars

C29_AttemptStampsLastMessage ==
    [][(idle_pc \in {"join", "call", "cwait"} /\ idle_pc' \in {"wait", "dead"})
          => last_message_time' = now /\ ~IdleExpired']_vars

\* C30: the request/reply backend's connect() issues the initial quota
\* request only after the subscribed event has fired.
C30_InitialQuotaAfterSubscribed ==
    [][(/\ backend = "device"
        /\ main_pc = "m_wait"
        /\ main_pc' = "live"
        /\ published' = published + 1)
          => subscribed]_vars

\* C31: the count _update_metrics returns, which a success scrape records as
\* metrics collected, is the number of numeric (int, float or bool) leaves of
\* the quota map; a list is traversed per element with [i] appended to the
\* key, a dict per entry with the keys joined by ".", every other value is
\* skipped and not counted; the traversal ends for every quota map.
C31_CountIsNumericLeaves ==
    (call.fn = "update_metrics" /\ ret.done) =>
        LET RECURSIVE Paths(_, _)
            Paths(key, v) ==
                IF v.t \in {"int", "float", "bool"} THEN {key}
                ELSE IF v.t = "list"
                THEN UNION {Paths(key \o "[" \o ToString(i - 1) \o "]", v.items[i]) :
                               i \in DOMAIN v.items}
                ELSE IF v.t = "dict"
                THEN UNION {Paths(key \o "." \o <<"x", "y", "z", "w">>[i], v.items[i]) :
                               i \in DOMAIN v.items}
                ELSE {}
            top == call.arg.items
            leaves == UNION {Paths(top[i].key, top[i].value) : i \in DOMAIN top}
        IN  /\ ret.value = Cardinality(leaves)
            /\ Len(ret.keys) = ret.value
            /\ {ret.keys[i] : i \in DOMAIN ret.keys} = leaves

\* the map {"a": {"x": [7, "s"], "y": True}} was projected: two metrics, the
\* string skipped
C31_Witness ==
    /\ call.fn = "update_metrics"
    /\ ret.done
    /\ call.arg.items[1].value.t = "dict"
    /\ Len(call.arg.items[1].value.items) = 2
    /\ call.arg.items[1].value.items[2].t = "bool"
    /\ ret.keys = <<"a.x[0]", "a.y">>
    /\ ret.value = 2

\* C32: the Worker creates a connection_errors metric at construction, and
\* run() increments it exactly once for each EcoflowApiException a collection
\* pass raises (here: get_device raised) and then goes on looping.
C32_ConnectionErrorsCounted ==
    [][(w_pc = "collect" /\ w_pc' = "sleep" /\ w_status' = <<"error">> /\ ~w_fetched')
          => /\ w_connection_errors # None
             /\ w_connection_errors' = w_connection_errors + 1]_vars

\* C37: whenever an iteration ends with the online gauge at 0 (offline,
\* not_found or error), no registered device metric still holds the label
\* values of an earlier successful scrape.
C37_NoStaleMetricsWhenOffline ==
    (w_pc = "sleep" /\ w_online = 0) => w_metrics \in {"none", "cleared"}

\* C38: at the end of every iteration the online gauge is 1 if and only if
\* the iteration was accounted as a success scrape.
C38_OnlineIffSuccess ==
    (w_pc = "sleep" /\ Len(w_status) = 1) =>
        (w_online = 1 <=> w_status[1] = "success")

\* get_device_quota raised after the online gauge had been set to 1, and the
\* iteration ended as an error with the gauge at 0
C38_Witness ==
    /\ w_pc = "sleep"
    /\ w_status = <<"error">>
    /\ w_fetched
    /\ w_online = 0
    /\ w_scrapes["success"] >= 1

\* C33: decode goes through the container's headers in order: only headers
\* with cmd_func 254 and cmd_id 21 contribute keys, and for a key that
\* several of them carry the value of the last one is returned.
C33_LaterHeaderWins ==
    (call.fn = "decode" /\ ret.done /\ call.arg.parses) =>
        LET msg == call.arg.msg
            Carries(i, k) ==
                /\ msg[i].cmd_func = 254
                /\ msg[i].cmd_id = 21
                /\ InnerParses(msg[i])
                /\ k \in DOMAIN msg[i].pdata.fields
        IN  /\ \A k \in DOMAIN ret.value : \E i \in DOMAIN msg : Carries(i, k)
            /\ \A i \in DOMAIN msg : \A k \in Keys :
                  (Carries(i, k) /\ \A j \in DOMAIN msg : Carries(j, k) => j <= i)
                     => k \in DOMAIN ret.value /\ ret.value[k] = msg[i].pdata.fields[k]

\* two handled headers carry soc, 85 in the first and 75 in the second: soc
\* is 75 and the key only the first carries keeps 85
C33_Witness ==
    /\ call.fn = "decode"
    /\ ret.done
    /\ Len(call.arg.msg) = 2
    /\ \A i \in {1, 2} : call.arg.msg[i].cmd_func = 254 /\ call.arg.msg[i].cmd_id = 21
    /\ call.arg.msg[1].pdata.fields = [k \in Keys |-> 85]
    /\ call.arg.msg[2].pdata.fields = [k \in {"soc"} |-> 75]
    /\ ret.value["soc"] = 75
    /\ \E k \in DOMAIN ret.value : ret.value[k] = 85

\* C34: under any interleaving of threads calling get_analytics() and
\* AnalyticsMetrics(), every call that runs between two resets returns the one
\* instance of that interval, whose metrics were initialised once, and
\* reset_analytics(), taking the module lock and then the class lock, cannot
\* deadlock with them. A call runs between two resets when no reset is under
\* way while it runs.
C34_OneInstanceBetweenResets ==
    /\ \A r \in ana.returned :
          /\ r[2] = "instance"
          /\ \A s \in ana.returned : s[1] = r[1] => s[3] = r[3]
    /\ ~\E t, u \in AnaThreads :
          /\ ana.th[t].pc \in {"n_lock", "r_class"} /\ ana.class_lock = u
          /\ ana.th[u].pc \in {"g_lock", "r_module"} /\ ana.module_lock = t

\* C35: when connect() fails because connected was not signalled in time, no
\* broker client or network loop that the call created keeps running, so a
\* late connect callback cannot mark the failed backend as connected and a
\* retried connect() does not coexist with an earlier session.
C35_FailedConnectLeavesNothingRunning ==
    main_pc = "failed" =>
        /\ \A c \in ClientIds : loops[c] \in {"unborn", "new", "stopped"}
        /\ ~connected

\* C39: on the push backend, whenever the broker-connected gauge reads 1 the
\* connection's connected event is set: every action that clears the event
\* (start of connect or reconnect, disconnect, disconnect callback, refused
\* connect callback) also brings the gauge to 0.  Stated for the states in
\* which no disconnect() call of the main thread is under way, so that the
\* two statements inside disconnect() are not what is observed.
C39_GaugeOneImpliesConnected ==
    (backend = "mqtt" /\ gauge = 1 /\ main_pc = "live") => connected

\* C40: when authorize() fails at any step, every session field (user id,
\* user name, broker url, port, certificate account, certificate password,
\* client id) keeps the value it had before the call.
C40_FailedAuthorizeKeepsSession ==
    (call.fn = "authorize" /\ ret.done /\ ret.raised # "none") =>
        ret.value = call.arg.session

\* C36: EcoflowMetric.set never fails with a label mismatch: every use of a
\* reused handle supplies exactly the label names the metric was registered
\* with, whatever number of bracketed indices the first key of that name had.
C36_SetNeverMismatchesLabels ==
    m_last.set # "ValueError"
====
